---------------------------- MODULE Spec2Model ----------------------------
(***************************************************************************)
(* A model of src/compiler.py: the type model, the scoped symbol table,    *)
(* the semantic analyzer, the intermediate code generator and              *)
(* compile_program.                                                        *)
(*                                                                         *)
(* Two specifications share the variables:                                 *)
(*   SpecST  a client calling the SymbolTable's five methods in any order; *)
(*   Spec    compile_program on a parsed tree: SemanticAnalyzer.analyze    *)
(*           (one action per _analyze_<Kind> handler, Python's call stack  *)
(*           kept as the sequence `stack` of pending calls), then, gated   *)
(*           on its result, IntermediateCodeGenerator.generate.            *)
(***************************************************************************)
EXTENDS Integers, Sequences, FiniteSets, TLC

VARIABLES
    scopes,         \* SymbolTable.scopes: a list of dicts name -> type
    ret,            \* SpecST: what the last SymbolTable call returned or raised
    ast,            \* the tree parser.parse returned
    pc,             \* compile_program's position
    stack,          \* the analyzer's pending calls, innermost first
    errors,         \* SemanticAnalyzer.errors
    success,        \* what SemanticAnalyzer.analyze returned
    code,           \* IntermediateCodeGenerator.code
    temp_counter,   \* IntermediateCodeGenerator.temp_counter
    label_counter,  \* IntermediateCodeGenerator.label_counter
    result          \* what compile_program returned

vars == <<scopes, ret, ast, pc, stack, errors, success, code,
          temp_counter, label_counter, result>>

---------------------------------------------------------------------------
(* class Type                                                              *)

Type_INT     == "int"
Type_FLOAT   == "float"
Type_STRING  == "string"
Type_BOOLEAN == "boolean"
Type_ERROR   == "error"

Types == {Type_INT, Type_FLOAT, Type_STRING, Type_BOOLEAN, Type_ERROR}

is_numeric(type_name) == type_name = Type_INT \/ type_name = Type_FLOAT

ArithOps   == {"+", "-", "*", "/"}
EqOps      == {"==", "!="}
OrderOps   == {"<", ">", "<=", ">="}
LogicOps   == {"&&", "||"}

arithmetic_result_type_no_coercion(left_type, right_type, operator) ==
    IF left_type = Type_ERROR \/ right_type = Type_ERROR THEN Type_ERROR
    ELSE IF left_type = Type_STRING /\ right_type = Type_STRING /\ operator = "+"
        THEN Type_STRING
    ELSE IF ~(is_numeric(left_type) /\ is_numeric(right_type)) THEN Type_ERROR
    ELSE IF left_type = Type_FLOAT \/ right_type = Type_FLOAT THEN Type_FLOAT
    ELSE Type_INT

\* lines 22-33: the operator is one of + - * /
arithmetic_result_type(left_type, right_type, operator) ==
    IF left_type = Type_ERROR \/ right_type = Type_ERROR THEN Type_ERROR
    ELSE IF left_type = Type_STRING /\ right_type = Type_STRING /\ operator = "+"
        THEN Type_STRING
    ELSE IF ~(is_numeric(left_type) /\ is_numeric(right_type)) THEN
        IF operator = "+" /\ (left_type = Type_STRING \/ right_type = Type_STRING)
        THEN Type_STRING
        ELSE Type_ERROR
    ELSE IF left_type = Type_FLOAT \/ right_type = Type_FLOAT THEN Type_FLOAT
    ELSE Type_INT

comparison_result_type_numeric_logic(left_type, right_type, operator) ==
    IF left_type = Type_ERROR \/ right_type = Type_ERROR THEN Type_ERROR
    ELSE IF operator \in EqOps THEN
        IF \/ is_numeric(left_type) /\ is_numeric(right_type)
           \/ left_type = Type_BOOLEAN /\ right_type = Type_BOOLEAN
           \/ left_type = Type_STRING /\ right_type = Type_STRING
        THEN Type_BOOLEAN ELSE Type_ERROR
    ELSE IF operator \in OrderOps THEN
        IF is_numeric(left_type) /\ is_numeric(right_type) THEN Type_BOOLEAN
        ELSE IF left_type = Type_STRING /\ right_type = Type_STRING THEN Type_BOOLEAN
        ELSE Type_ERROR
    ELSE
        IF /\ left_type \in {Type_BOOLEAN, Type_INT, Type_FLOAT}
           /\ right_type \in {Type_BOOLEAN, Type_INT, Type_FLOAT}
        THEN Type_BOOLEAN ELSE Type_ERROR

\* lines 35-55: the operator is one of == != < > <= >= && ||
comparison_result_type(left_type, right_type, operator) ==
    IF left_type = Type_ERROR \/ right_type = Type_ERROR THEN Type_ERROR
    ELSE IF operator \in EqOps THEN
        IF \/ is_numeric(left_type) /\ is_numeric(right_type)
           \/ left_type = Type_BOOLEAN /\ right_type = Type_BOOLEAN
           \/ left_type = Type_STRING /\ right_type = Type_STRING
        THEN Type_BOOLEAN ELSE Type_ERROR
    ELSE IF operator \in OrderOps THEN
        IF is_numeric(left_type) /\ is_numeric(right_type) THEN Type_BOOLEAN
        ELSE IF left_type = Type_STRING /\ right_type = Type_STRING THEN Type_BOOLEAN
        ELSE Type_ERROR
    ELSE
        IF left_type = Type_BOOLEAN /\ right_type = Type_BOOLEAN
        THEN Type_BOOLEAN ELSE Type_ERROR

get_result_type(left_type, right_type, operator) ==
    IF operator \in ArithOps
    THEN arithmetic_result_type(left_type, right_type, operator)
    ELSE IF operator \in EqOps \cup OrderOps \cup LogicOps
    THEN comparison_result_type(left_type, right_type, operator)
    ELSE Type_ERROR

---------------------------------------------------------------------------
(* class SemanticError: the message, without the token's line and column   *)

SemanticError(what, name) == [kind |-> what, name |-> name, types |-> <<>>]

NoError == [kind |-> "none", name |-> "", types |-> <<>>]

---------------------------------------------------------------------------
(* class SymbolTable.  A scope is a function from the names declared in it *)
(* to their types (the entry's 'node' is stored and never read).  Each     *)
(* method is an operator from the scope list to what the call leaves:      *)
(* raised/error for the exception, value for the return value, scopes for  *)
(* the list afterwards.                                                    *)

EmptyScope == [n \in {} |-> Type_INT]

SymbolTable_init == <<EmptyScope>>

enter_scope(sc) == Append(sc, EmptyScope)

exit_scope_always(sc) == SubSeq(sc, 1, Len(sc) - 1)

exit_scope(sc) == IF Len(sc) > 1 THEN SubSeq(sc, 1, Len(sc) - 1) ELSE sc

declare_any_scope(sc, name, type_val) ==
    IF \E i \in 1..Len(sc) : name \in DOMAIN sc[i]
    THEN [raised |-> TRUE, error |-> SemanticError("ya declarada", name),
          scopes |-> sc]
    ELSE [raised |-> FALSE, error |-> NoError,
          scopes |-> [sc EXCEPT ![Len(sc)] =
                        [n \in DOMAIN sc[Len(sc)] \cup {name} |->
                            IF n = name THEN type_val ELSE sc[Len(sc)][n]]]]

declare(sc, name, type_val) ==
    IF name \in DOMAIN sc[Len(sc)]
    THEN [raised |-> TRUE, error |-> SemanticError("ya declarada", name),
          scopes |-> sc]
    ELSE [raised |-> FALSE, error |-> NoError,
          scopes |-> [sc EXCEPT ![Len(sc)] =
                        [n \in DOMAIN sc[Len(sc)] \cup {name} |->
                            IF n = name THEN type_val ELSE sc[Len(sc)][n]]]]

\* for scope in reversed(self.scopes): the scopes i, i-1, ..., 1
RECURSIVE lookup_from(_, _, _)
lookup_from(sc, i, name) ==
    IF i = 0
    THEN [raised |-> TRUE, error |-> SemanticError("no declarada", name),
          value |-> Type_ERROR]
    ELSE IF name \in DOMAIN sc[i]
    THEN [raised |-> FALSE, error |-> NoError, value |-> sc[i][name]]
    ELSE lookup_from(sc, i - 1, name)

RECURSIVE lookup_outermost_first(_, _, _)
lookup_outermost_first(sc, i, name) ==
    IF i > Len(sc)
    THEN [raised |-> TRUE, error |-> SemanticError("no declarada", name),
          value |-> Type_ERROR]
    ELSE IF name \in DOMAIN sc[i]
    THEN [raised |-> FALSE, error |-> NoError, value |-> sc[i][name]]
    ELSE lookup_outermost_first(sc, i + 1, name)

lookup_wrong_order(sc, name) == lookup_outermost_first(sc, 1, name)

lookup(sc, name) == lookup_from(sc, Len(sc), name)

RECURSIVE update_from(_, _, _)
update_from(sc, i, name) ==
    IF i = 0
    THEN [raised |-> TRUE,
          error |-> SemanticError("no declarada antes de la asignacion", name),
          scopes |-> sc]
    ELSE IF name \in DOMAIN sc[i]
    THEN [raised |-> FALSE, error |-> NoError, scopes |-> sc]
    ELSE update_from(sc, i - 1, name)

RECURSIVE update_storing_from(_, _, _, _)
update_storing_from(sc, i, name, type_val) ==
    IF i = 0
    THEN [raised |-> TRUE,
          error |-> SemanticError("no declarada antes de la asignacion", name),
          scopes |-> sc]
    ELSE IF name \in DOMAIN sc[i]
    THEN [raised |-> FALSE, error |-> NoError,
          scopes |-> [sc EXCEPT ![i][name] = type_val]]
    ELSE update_storing_from(sc, i - 1, name, type_val)

update_storing(sc, name, type_val) == update_storing_from(sc, Len(sc), name, type_val)

update(sc, name, type_val) == update_from(sc, Len(sc), name)

---------------------------------------------------------------------------
(* The ASTNode classes: a node is a record, k its class name.  A token is  *)
(* kept as its value (name, operator); a Literal's value as its text.      *)
(* NoNode is Python's None in a child position.                            *)

NoNode == [k |-> "None"]

Program(statements) == [k |-> "Program", statements |-> statements]

VarDeclaration(name, initial_value) ==
    [k |-> "VarDeclaration", name |-> name, initial_value |-> initial_value]

Assignment(name, value) == [k |-> "Assignment", name |-> name, value |-> value]

IfStatement(condition, then_branch, else_branch) ==
    [k |-> "IfStatement", condition |-> condition, then_branch |-> then_branch,
     else_branch |-> else_branch]

WhileLoop(condition, body) ==
    [k |-> "WhileLoop", condition |-> condition, body |-> body]

ForLoop(init, condition, update_node, body) ==
    [k |-> "ForLoop", init |-> init, condition |-> condition,
     update |-> update_node, body |-> body]

PrintStatement(expressions) ==
    [k |-> "PrintStatement", expressions |-> expressions]

InputStatement(variable) == [k |-> "InputStatement", variable |-> variable]

Block(statements) == [k |-> "Block", statements |-> statements]

BinaryOp(left, operator, right) ==
    [k |-> "BinaryOp", left |-> left, operator |-> operator, right |-> right]

UnaryOp(operator, operand) ==
    [k |-> "UnaryOp", operator |-> operator, operand |-> operand]

Literal(value, type_val) == [k |-> "Literal", value |-> value, type |-> type_val]

Variable(name) == [k |-> "Variable", name |-> name]

FunctionCall(name, arguments) ==
    [k |-> "FunctionCall", name |-> name, arguments |-> arguments]

---------------------------------------------------------------------------
(* class SemanticAnalyzer.  A diagnostic is the record of one string       *)
(* appended to self.errors: its wording (kind), the name or operator it    *)
(* names and the types it names; line and column are left out.             *)

Diagnostic(kind, name, types) == [kind |-> kind, name |-> name, types |-> types]

ConditionTypes == {Type_BOOLEAN, Type_INT, Type_FLOAT}

is_assignment_compatible_numeric(var_type, expr_type) ==
    var_type = expr_type \/ (is_numeric(var_type) /\ is_numeric(expr_type))

is_assignment_compatible(var_type, expr_type) ==
    IF var_type = expr_type THEN TRUE
    ELSE IF var_type = Type_FLOAT /\ expr_type = Type_INT THEN TRUE
    ELSE FALSE

\* _get_expression_type never changes the symbol table: it is an operator
\* from the expression and the scope list to the type returned (type) and
\* the diagnostics appended to self.errors, in order (errors).  The three
\* operators before it are its branches for BinaryOp, UnaryOp and
\* FunctionCall once the operands are typed: from the operator or name and
\* the operand types to the type returned and the diagnostics the node
\* itself appends.

BinaryOp_type_reporting(op, left_type, right_type) ==
    IF get_result_type(left_type, right_type, op) = Type_ERROR
    THEN [type |-> Type_ERROR,
          errors |-> <<Diagnostic("operador incompatible con tipos", op,
                                  <<left_type, right_type>>)>>]
    ELSE [type |-> get_result_type(left_type, right_type, op), errors |-> <<>>]

\* lines 483-496
BinaryOp_type(op, left_type, right_type) ==
    LET op_result_type == get_result_type(left_type, right_type, op)
    IN  IF left_type # Type_ERROR /\ right_type # Type_ERROR THEN
            IF op_result_type = Type_ERROR
            THEN [type |-> Type_ERROR,
                  errors |-> <<Diagnostic("operador incompatible con tipos", op,
                                          <<left_type, right_type>>)>>]
            ELSE [type |-> op_result_type, errors |-> <<>>]
        ELSE [type |-> Type_ERROR, errors |-> <<>>]

UnaryOp_type_boolean_only(op, operand_type) ==
    IF operand_type = Type_ERROR THEN [type |-> Type_ERROR, errors |-> <<>>]
    ELSE IF op = "!" /\ operand_type = Type_BOOLEAN
    THEN [type |-> Type_BOOLEAN, errors |-> <<>>]
    ELSE IF op = "-" /\ is_numeric(operand_type)
    THEN [type |-> operand_type, errors |-> <<>>]
    ELSE [type |-> Type_ERROR,
          errors |-> <<Diagnostic("operador incompatible con tipo", op,
                                  <<operand_type>>)>>]

\* lines 499-523
UnaryOp_type(op, operand_type) ==
    LET bad == [type |-> Type_ERROR,
                errors |-> <<Diagnostic("operador incompatible con tipo", op,
                                        <<operand_type>>)>>]
    IN  IF operand_type # Type_ERROR THEN
            IF op = "!" THEN
                IF operand_type = Type_BOOLEAN \/ is_numeric(operand_type)
                THEN [type |-> Type_BOOLEAN, errors |-> <<>>]
                ELSE bad
            ELSE IF op = "-" THEN
                IF is_numeric(operand_type)
                THEN [type |-> operand_type, errors |-> <<>>]
                ELSE bad
            ELSE [type |-> Type_ERROR, errors |-> <<>>]
        ELSE [type |-> Type_ERROR, errors |-> <<>>]

FunctionCall_type_any_argument(name, arg_types) ==
    IF \E i \in 1..Len(arg_types) : arg_types[i] = Type_ERROR
    THEN [type |-> Type_ERROR, errors |-> <<>>]
    ELSE IF name = "len" THEN
        IF Len(arg_types) # 1
        THEN [type |-> Type_ERROR,
              errors |-> <<Diagnostic("funcion 'len' espera 1 argumento", "len",
                                      <<ToString(Len(arg_types))>>)>>]
        ELSE [type |-> Type_INT, errors |-> <<>>]
    ELSE [type |-> Type_ERROR,
          errors |-> <<Diagnostic("funcion no definida", name, <<>>)>>]

\* lines 526-543; len(expr.arguments) is Len(arg_types)
FunctionCall_type(name, arg_types) ==
    IF \E i \in 1..Len(arg_types) : arg_types[i] = Type_ERROR
    THEN [type |-> Type_ERROR, errors |-> <<>>]
    ELSE IF name = "len" THEN
        IF Len(arg_types) # 1
        THEN [type |-> Type_ERROR,
              errors |-> <<Diagnostic("funcion 'len' espera 1 argumento", "len",
                                      <<ToString(Len(arg_types))>>)>>]
        ELSE IF arg_types[1] # Type_STRING
        THEN [type |-> Type_ERROR,
              errors |-> <<Diagnostic("funcion 'len' espera un string", "len",
                                      <<arg_types[1]>>)>>]
        ELSE [type |-> Type_INT, errors |-> <<>>]
    ELSE [type |-> Type_ERROR,
          errors |-> <<Diagnostic("funcion no definida", name, <<>>)>>]

RECURSIVE get_expression_type(_, _)
RECURSIVE get_expression_types(_, _)

\* [self._get_expression_type(arg) for arg in exprs]: the types, and the
\* diagnostics of all of them in order
get_expression_types(exprs, sc) ==
    IF exprs = <<>> THEN [types |-> <<>>, errors |-> <<>>]
    ELSE LET first == get_expression_type(Head(exprs), sc)
             rest  == get_expression_types(Tail(exprs), sc)
         IN  [types |-> <<first.type>> \o rest.types,
              errors |-> first.errors \o rest.errors]

get_expression_type(expr, sc) ==
    CASE expr.k = "None" -> [type |-> Type_ERROR, errors |-> <<>>]
      [] expr.k = "Literal" -> [type |-> expr.type, errors |-> <<>>]
      [] expr.k = "Variable" ->
            LET r == lookup(sc, expr.name) IN
            IF r.raised THEN [type |-> Type_ERROR, errors |-> <<r.error>>]
            ELSE [type |-> r.value, errors |-> <<>>]
      [] expr.k = "BinaryOp" ->
            LET l == get_expression_type(expr.left, sc)
                r == get_expression_type(expr.right, sc)
                t == BinaryOp_type(expr.operator, l.type, r.type)
            IN  [type |-> t.type, errors |-> l.errors \o r.errors \o t.errors]
      [] expr.k = "UnaryOp" ->
            LET o == get_expression_type(expr.operand, sc)
                t == UnaryOp_type(expr.operator, o.type)
            IN  [type |-> t.type, errors |-> o.errors \o t.errors]
      [] expr.k = "FunctionCall" ->
            LET a == get_expression_types(expr.arguments, sc)
                t == FunctionCall_type(expr.name, a.types)
            IN  [type |-> t.type, errors |-> a.errors \o t.errors]
      [] OTHER ->
            [type |-> Type_ERROR,
             errors |-> <<Diagnostic("Tipo de nodo de expresion desconocido",
                                     expr.k, <<>>)>>]

\* The handlers that touch the symbol table or the diagnostics without
\* calling _analyze_node: each is an operator from the node and the scope
\* list to the scope list afterwards (scopes) and the diagnostics appended
\* (errors).

analyze_VarDeclaration_int(node, sc) ==
    LET d == declare(sc, node.name, Type_INT)
    IN  [scopes |-> d.scopes, errors |-> IF d.raised THEN <<d.error>> ELSE <<>>]

analyze_VarDeclaration(node, sc) ==
    LET e == IF node.initial_value.k # "None"
             THEN get_expression_type(node.initial_value, sc)
             ELSE [type |-> Type_INT, errors |-> <<>>]
        var_type == e.type
        d == declare(sc, node.name, var_type)
    IN  IF var_type # Type_ERROR
        THEN [scopes |-> d.scopes,
              errors |-> e.errors \o (IF d.raised THEN <<d.error>> ELSE <<>>)]
        ELSE [scopes |-> sc, errors |-> e.errors]

analyze_Assignment(node, sc) ==
    LET v == lookup(sc, node.name)
        e == get_expression_type(node.value, sc)
    IN  IF v.raised THEN [scopes |-> sc, errors |-> <<v.error>>]
        ELSE IF /\ v.value # Type_ERROR
                /\ e.type # Type_ERROR
                /\ ~is_assignment_compatible(v.value, e.type)
        THEN [scopes |-> sc,
              errors |-> e.errors \o
                  <<Diagnostic("no se puede asignar tipo", node.name,
                               <<e.type, v.value>>)>>]
        ELSE [scopes |-> sc, errors |-> e.errors]

analyze_condition_boolean_only(condition, of, sc) ==
    LET c == get_expression_type(condition, sc)
    IN  IF c.type # Type_BOOLEAN /\ c.type # Type_ERROR
        THEN c.errors \o
             <<Diagnostic("condicion debe ser booleana o numerica", of,
                          <<c.type>>)>>
        ELSE c.errors

\* the condition check shared, as three copies, by _analyze_IfStatement,
\* _analyze_WhileLoop and _analyze_ForLoop; of is "if", "while" or "for"
analyze_condition(condition, of, sc) ==
    LET c == get_expression_type(condition, sc)
    IN  IF c.type \notin ConditionTypes /\ c.type # Type_ERROR
        THEN c.errors \o
             <<Diagnostic("condicion debe ser booleana o numerica", of,
                          <<c.type>>)>>
        ELSE c.errors

analyze_PrintStatement(node, sc) ==
    [scopes |-> sc, errors |-> get_expression_types(node.expressions, sc).errors]

analyze_InputStatement(node, sc) ==
    LET v == lookup(sc, node.variable)
    IN  [scopes |-> sc, errors |-> IF v.raised THEN <<v.error>> ELSE <<>>]

\* _analyze_ForLoop, lines 433-442: the condition, then the update, which
\* is passed to _get_expression_type whatever its class
analyze_ForLoop_condition_update(node, sc) ==
    (IF node.condition.k # "None"
     THEN analyze_condition(node.condition, "for", sc) ELSE <<>>)
    \o
    (IF node.update.k # "None"
     THEN get_expression_type(node.update, sc).errors ELSE <<>>)

analyze_ForLoop_no_enter(sc) == sc

\* _analyze_ForLoop, line 428
analyze_ForLoop_enter(sc) == enter_scope(sc)

\* _analyze_ForLoop, line 446
analyze_ForLoop_exit(sc) == exit_scope(sc)

\* _analyze_Block, line 459
analyze_Block_enter(sc) == enter_scope(sc)

analyze_Block_no_exit(sc) == sc

\* _analyze_Block, line 462
analyze_Block_exit(sc) == exit_scope(sc)

analyze_result_true(errs) == TRUE

\* analyze, line 352
analyze_result(errs) == Len(errs) = 0

---------------------------------------------------------------------------
(* class IntermediateCodeGenerator.  g is the generator's state: code,     *)
(* temp_counter, label_counter.  An instruction is the tuple of the words  *)
(* of its text: f"ADD {t2}, {t0}, {t1}" is <<"ADD", "t2", "t0", "t1">>.    *)
(* A visitor is an operator from the node and g to g afterwards (g) and    *)
(* the value returned (temp: a temporary's name, or None).                 *)

None == "None"

IntermediateCodeGenerator_init ==
    [code |-> <<>>, temp_counter |-> 0, label_counter |-> 0]

new_temp_same_counter(g) ==
    [name |-> "t" \o ToString(g.temp_counter), g |-> g]

new_temp(g) ==
    [name |-> "t" \o ToString(g.temp_counter),
     g |-> [g EXCEPT !.temp_counter = @ + 1]]

new_label(g) ==
    [name |-> "L" \o ToString(g.label_counter),
     g |-> [g EXCEPT !.label_counter = @ + 1]]

emit(g, instruction) == [g EXCEPT !.code = Append(@, instruction)]

op_map(operator) ==
    CASE operator = "+"  -> "ADD"
      [] operator = "-"  -> "SUB"
      [] operator = "*"  -> "MUL"
      [] operator = "/"  -> "DIV"
      [] operator = "==" -> "EQ"
      [] operator = "!=" -> "NEQ"
      [] operator = "<"  -> "LT"
      [] operator = ">"  -> "GT"
      [] operator = "<=" -> "LTE"
      [] operator = ">=" -> "GTE"
      [] operator = "&&" -> "AND"
      [] operator = "||" -> "OR"
      [] OTHER -> "UNKNOWN_OP"

\* The visitors of the nodes that hold no statement (the expressions, and
\* VarDeclaration, Assignment, PrintStatement, InputStatement): an operator
\* from the node and g to g afterwards (g) and the value returned (temp).
RECURSIVE generate_node(_, _)
RECURSIVE generate_prints(_, _)
RECURSIVE generate_arguments(_, _, _)

\* _generate_PrintStatement's loop
generate_prints(expressions, g) ==
    IF expressions = <<>> THEN g
    ELSE LET e == generate_node(Head(expressions), g)
         IN  generate_prints(Tail(expressions),
                 IF e.temp # None THEN emit(e.g, <<"PRINT", e.temp>>) ELSE e.g)

\* _generate_FunctionCall's loop: ok is FALSE when it returned None
generate_arguments(arguments, g, arg_temps) ==
    IF arguments = <<>> THEN [ok |-> TRUE, g |-> g, arg_temps |-> arg_temps]
    ELSE LET a == generate_node(Head(arguments), g)
         IN  IF a.temp = None THEN [ok |-> FALSE, g |-> a.g, arg_temps |-> arg_temps]
             ELSE generate_arguments(Tail(arguments), a.g, Append(arg_temps, a.temp))

generate_VarDeclaration(node, g) ==
    IF node.initial_value.k # "None" THEN
        LET e == generate_node(node.initial_value, g)
        IN  [g |-> IF e.temp # None
                   THEN emit(e.g, <<"ASSIGN", node.name, e.temp>>) ELSE e.g,
             temp |-> None]
    ELSE [g |-> g, temp |-> None]

generate_Assignment(node, g) ==
    LET e == generate_node(node.value, g)
    IN  [g |-> IF e.temp # None
               THEN emit(e.g, <<"ASSIGN", node.name, e.temp>>) ELSE e.g,
         temp |-> None]

generate_PrintStatement(node, g) ==
    [g |-> generate_prints(node.expressions, g), temp |-> None]

generate_InputStatement(node, g) ==
    [g |-> emit(g, <<"INPUT", node.variable>>), temp |-> None]

generate_Literal(node, g) ==
    LET t == new_temp(g)
        value_repr == IF node.type = Type_STRING
                      THEN "\"" \o node.value \o "\"" ELSE node.value
    IN  [g |-> emit(t.g, <<"ASSIGN", t.name, value_repr>>), temp |-> t.name]

generate_Variable(node, g) ==
    LET t == new_temp(g)
    IN  [g |-> emit(t.g, <<"ASSIGN", t.name, node.name>>), temp |-> t.name]

generate_BinaryOp_right_first(node, g) ==
    LET r == generate_node(node.right, g)
        l == generate_node(node.left, r.g)
        t == new_temp(l.g)
        op_code == op_map(node.operator)
    IN  IF l.temp = None \/ r.temp = None THEN [g |-> l.g, temp |-> None]
        ELSE IF op_code = "UNKNOWN_OP" THEN [g |-> t.g, temp |-> None]
        ELSE [g |-> emit(t.g, <<op_code, t.name, l.temp, r.temp>>),
              temp |-> t.name]

generate_BinaryOp(node, g) ==
    LET l == generate_node(node.left, g)
        r == generate_node(node.right, l.g)
        t == new_temp(r.g)
        op_code == op_map(node.operator)
    IN  IF l.temp = None \/ r.temp = None THEN [g |-> r.g, temp |-> None]
        ELSE IF op_code = "UNKNOWN_OP" THEN [g |-> t.g, temp |-> None]
        ELSE [g |-> emit(t.g, <<op_code, t.name, l.temp, r.temp>>),
              temp |-> t.name]

generate_UnaryOp(node, g) ==
    LET o == generate_node(node.operand, g)
        t == new_temp(o.g)
    IN  IF o.temp = None THEN [g |-> o.g, temp |-> None]
        ELSE IF node.operator = "!"
        THEN [g |-> emit(t.g, <<"NOT", t.name, o.temp>>), temp |-> t.name]
        ELSE IF node.operator = "-"
        THEN [g |-> emit(t.g, <<"NEG", t.name, o.temp>>), temp |-> t.name]
        ELSE [g |-> t.g, temp |-> None]

generate_FunctionCall(node, g) ==
    LET a == generate_arguments(node.arguments, g, <<>>)
        t == new_temp(a.g)
    IN  IF ~a.ok THEN [g |-> a.g, temp |-> None]
        ELSE [g |-> emit(t.g, <<"CALL", t.name, node.name>> \o a.arg_temps),
              temp |-> t.name]

\* _generate_node's dispatch, for the nodes that hold no statement
generate_node(node, g) ==
    CASE node.k = "None"           -> [g |-> g, temp |-> None]
      [] node.k = "VarDeclaration" -> generate_VarDeclaration(node, g)
      [] node.k = "Assignment"     -> generate_Assignment(node, g)
      [] node.k = "PrintStatement" -> generate_PrintStatement(node, g)
      [] node.k = "InputStatement" -> generate_InputStatement(node, g)
      [] node.k = "Literal"        -> generate_Literal(node, g)
      [] node.k = "Variable"       -> generate_Variable(node, g)
      [] node.k = "BinaryOp"       -> generate_BinaryOp(node, g)
      [] node.k = "UnaryOp"        -> generate_UnaryOp(node, g)
      [] node.k = "FunctionCall"   -> generate_FunctionCall(node, g)

\* The visitors of IfStatement, WhileLoop and ForLoop, cut where they call
\* _generate_node on a statement.  Each part is an operator from the node,
\* g and the labels the visitor holds to g afterwards (g), the labels it
\* holds (labels) and whether it returned early (returned).

\* _generate_IfStatement, lines 616-622; labels are <<else_label, end_label>>
generate_IfStatement_condition(node, g) ==
    LET c == generate_node(node.condition, g)
        else_label == new_label(c.g)
        end_label == IF node.else_branch.k # "None"
                     THEN new_label(else_label.g) ELSE else_label
    IN  IF c.temp = None
        THEN [g |-> c.g, labels |-> <<>>, returned |-> TRUE]
        ELSE [g |-> emit(end_label.g,
                         <<"IF_FALSE", c.temp, "GOTO", else_label.name>>),
              labels |-> <<else_label.name, end_label.name>>,
              returned |-> FALSE]

generate_IfStatement_after_then_always_goto(node, g, labels) ==
    emit(emit(g, <<"GOTO", labels[2]>>), <<"LABEL", labels[1]>>)

\* lines 625-627 and 630-631, after the then-branch
generate_IfStatement_after_then(node, g, labels) ==
    IF node.else_branch.k # "None"
    THEN emit(emit(g, <<"GOTO", labels[2]>>), <<"LABEL", labels[1]>>)
    ELSE emit(g, <<"LABEL", labels[1]>>)

\* line 629, after the else-branch
generate_IfStatement_after_else(node, g, labels) ==
    emit(g, <<"LABEL", labels[2]>>)

generate_WhileLoop_condition_before_label(node, g) ==
    LET start_label == new_label(g)
        end_label == new_label(start_label.g)
        c == generate_node(node.condition, end_label.g)
    IN  IF c.temp = None
        THEN [g |-> c.g, labels |-> <<>>, returned |-> TRUE]
        ELSE [g |-> emit(emit(c.g, <<"LABEL", start_label.name>>),
                         <<"IF_FALSE", c.temp, "GOTO", end_label.name>>),
              labels |-> <<start_label.name, end_label.name>>,
              returned |-> FALSE]

\* _generate_WhileLoop, lines 634-641; labels are <<start_label, end_label>>
generate_WhileLoop_condition(node, g) ==
    LET start_label == new_label(g)
        end_label == new_label(start_label.g)
        c == generate_node(node.condition,
                           emit(end_label.g, <<"LABEL", start_label.name>>))
    IN  IF c.temp = None
        THEN [g |-> c.g, labels |-> <<>>, returned |-> TRUE]
        ELSE [g |-> emit(c.g, <<"IF_FALSE", c.temp, "GOTO", end_label.name>>),
              labels |-> <<start_label.name, end_label.name>>,
              returned |-> FALSE]

generate_WhileLoop_after_body_no_end_label(node, g, labels) ==
    emit(g, <<"GOTO", labels[1]>>)

\* lines 643-644, after the body
generate_WhileLoop_after_body(node, g, labels) ==
    emit(emit(g, <<"GOTO", labels[1]>>), <<"LABEL", labels[2]>>)

\* _generate_ForLoop, lines 647-650; labels are
\* <<start_label, cond_label, update_label, end_label>>
generate_ForLoop_labels(node, g) ==
    LET start_label == new_label(g)
        cond_label == new_label(start_label.g)
        update_label == new_label(cond_label.g)
        end_label == new_label(update_label.g)
    IN  [g |-> end_label.g,
         labels |-> <<start_label.name, cond_label.name, update_label.name,
                      end_label.name>>]

\* lines 655-657, after the init
generate_ForLoop_after_init(node, g, labels) ==
    emit(emit(g, <<"GOTO", labels[2]>>), <<"LABEL", labels[1]>>)

generate_ForLoop_after_body_update_on_entry(node, g, labels) ==
    LET g1 == emit(g, <<"LABEL", labels[2]>>)
        g2 == IF node.update.k # "None"
              THEN generate_node(node.update, g1).g ELSE g1
        g3 == emit(g2, <<"LABEL", labels[3]>>)
        c == generate_node(node.condition, g3)
    IN  IF node.condition.k # "None" THEN
            IF c.temp = None THEN c.g
            ELSE emit(emit(c.g, <<"IF_TRUE", c.temp, "GOTO", labels[1]>>),
                      <<"LABEL", labels[4]>>)
        ELSE emit(emit(g3, <<"GOTO", labels[1]>>), <<"LABEL", labels[4]>>)

\* lines 660-672, after the body
generate_ForLoop_after_body(node, g, labels) ==
    LET g1 == emit(g, <<"LABEL", labels[3]>>)
        g2 == IF node.update.k # "None"
              THEN generate_node(node.update, g1).g ELSE g1
        g3 == emit(g2, <<"LABEL", labels[2]>>)
        c == generate_node(node.condition, g3)
    IN  IF node.condition.k # "None" THEN
            IF c.temp = None THEN c.g
            ELSE emit(emit(c.g, <<"IF_TRUE", c.temp, "GOTO", labels[1]>>),
                      <<"LABEL", labels[4]>>)
        ELSE emit(emit(g3, <<"GOTO", labels[1]>>), <<"LABEL", labels[4]>>)

---------------------------------------------------------------------------
(* The inputs.                                                             *)

Names == {"x", "y"}

MaxDepth == 3       \* SpecST: enter_scope is called while the list is shorter

MaxStmts == 2       \* Spec: the statements of the Program node

IntLit   == Literal("1", Type_INT)
FloatLit == Literal("1.5", Type_FLOAT)
StrLit   == Literal("a", Type_STRING)
Len5     == FunctionCall("len", <<Literal("5", Type_INT)>>)
XltOne   == BinaryOp(Variable("x"), "<", IntLit)
XplusOne == BinaryOp(Variable("x"), "+", IntLit)
OneLtOne == BinaryOp(IntLit, "<", IntLit)

LeafStmts ==
    {VarDeclaration(n, e) : n \in Names, e \in {NoNode, IntLit, StrLit, Len5}}
    \cup {VarDeclaration("x", FloatLit), VarDeclaration("x", OneLtOne)}
    \cup {Assignment("x", e) : e \in {IntLit, FloatLit, StrLit, OneLtOne, Len5}}
    \cup {Assignment("y", IntLit)}
    \cup {PrintStatement(<<Variable(n)>>) : n \in Names}
    \cup {PrintStatement(<<StrLit, Variable("x")>>)}
    \cup {InputStatement("x")}

DeclBlock  == Block(<<VarDeclaration("x", StrLit)>>)
PrintBlock == Block(<<PrintStatement(<<Variable("x")>>)>>)
StepBlock  == Block(<<Assignment("x", XplusOne)>>)
CountLoop(update_node) ==
    ForLoop(VarDeclaration("x", IntLit), XltOne, update_node, PrintBlock)

BlockStmts ==
    {DeclBlock,
     Block(<<VarDeclaration("x", StrLit), PrintStatement(<<Variable("x")>>)>>),
     Block(<<Block(<<VarDeclaration("y", IntLit)>>),
             PrintStatement(<<Variable("y")>>)>>),
     Block(<<VarDeclaration("x", StrLit), CountLoop(NoNode),
             PrintStatement(<<Variable("x")>>)>>)}

IfStmts ==
    {IfStatement(XltOne, DeclBlock, NoNode),
     IfStatement(XltOne, PrintBlock, DeclBlock),
     IfStatement(StrLit, DeclBlock, NoNode),
     IfStatement(Len5, PrintBlock, DeclBlock),
     IfStatement(Variable("x"), PrintBlock, NoNode)}

WhileStmts ==
    {WhileLoop(XltOne, StepBlock), WhileLoop(StrLit, DeclBlock),
     WhileLoop(Variable("x"), PrintBlock)}

ForStmts ==
    {CountLoop(NoNode), CountLoop(XplusOne), CountLoop(Assignment("x", XplusOne)),
     ForLoop(NoNode, NoNode, NoNode, DeclBlock),
     ForLoop(Assignment("x", IntLit), StrLit, NoNode, PrintBlock),
     ForLoop(NoNode, Variable("x"), NoNode, PrintBlock),
     ForLoop(VarDeclaration("y", Len5), XltOne, NoNode,
             Block(<<PrintStatement(<<Variable("y")>>)>>))}

\* statements with if, while and for inside one another
NestedIf ==
    IfStatement(XltOne, Block(<<WhileLoop(XltOne, StepBlock)>>),
                Block(<<CountLoop(XplusOne)>>))

NestedWhile ==
    WhileLoop(XltOne, Block(<<IfStatement(XltOne, PrintBlock, StepBlock)>>))

NestedStmts == {NestedIf, NestedWhile}

StmtSet ==
    LeafStmts \cup BlockStmts \cup IfStmts \cup WhileStmts \cup ForStmts
    \cup NestedStmts

ProgramSet ==
    {Program(ss) : ss \in UNION {[1..n -> StmtSet] : n \in 0..MaxStmts}}

\* the types a client of the table passes to declare and update
ClientTypes == {Type_INT, Type_STRING}

\* The expressions of SpecExpr: the leaves, and around an expression e one
\* level smaller a BinaryOp with a literal on the right or on the left, a
\* UnaryOp, a call of len with e at any position among its arguments, and
\* a call of a function the analyzer does not know.
MaxExprDepth == 2   \* SpecExpr: the nesting of the expression

MaxArgs == 2        \* SpecExpr: the arguments of a call of len

ExprLeaves == {IntLit, FloatLit, StrLit, Variable("x")}

ExprPartners == {IntLit, StrLit}

ExprOperators == {"+", "<", "&&"}

UnaryOperators == {"!", "-"}

\* n string literals
RECURSIVE StrLits(_)
StrLits(n) == IF n = 0 THEN <<>> ELSE Append(StrLits(n - 1), StrLit)

\* the argument lists of length 0..MaxArgs with an expression of S at one
\* position and the string literal elsewhere
ArgumentLists(S) ==
    {<<>>} \cup
    {StrLits(p[2] - 1) \o <<e>> \o StrLits(p[1] - p[2]) :
        e \in S, p \in {q \in (1..MaxArgs) \X (1..MaxArgs) : q[2] <= q[1]}}

RECURSIVE ExprsOfDepth(_)
ExprsOfDepth(d) ==
    IF d = 0 THEN ExprLeaves
    ELSE LET smaller == ExprsOfDepth(d - 1) IN
         ExprLeaves
         \cup {BinaryOp(e, op, l) :
                  e \in smaller, op \in ExprOperators, l \in ExprPartners}
         \cup {BinaryOp(IntLit, op, e) : op \in ExprOperators, e \in smaller}
         \cup {UnaryOp(op, e) : op \in UnaryOperators, e \in smaller}
         \cup {FunctionCall("len", args) : args \in ArgumentLists(smaller)}
         \cup {FunctionCall("size", <<e>>) : e \in smaller}

---------------------------------------------------------------------------
(* SpecST: a client of one SymbolTable.  ret is the last call: its name,   *)
(* its arguments, whether it raised, the error raised, the value returned. *)

Ret(op, name, type_val, raised, error, value) ==
    [op |-> op, name |-> name, type_val |-> type_val, raised |-> raised,
     error |-> error, value |-> value]

Idle ==
    /\ ast = [k |-> "None"]
    /\ pc = "idle"
    /\ stack = <<>>
    /\ errors = <<>>
    /\ success = FALSE
    /\ code = <<>>
    /\ temp_counter = 0
    /\ label_counter = 0
    /\ result = [k |-> "running", code |-> <<>>]

InitST ==
    /\ scopes = SymbolTable_init
    /\ ret = Ret("__init__", "", None, FALSE, NoError, None)
    /\ Idle

compilerVars == <<ast, pc, stack, errors, success, code, temp_counter,
                  label_counter, result>>

CallEnterScope ==
    /\ Len(scopes) < MaxDepth
    /\ scopes' = enter_scope(scopes)
    /\ ret' = Ret("enter_scope", "", None, FALSE, NoError, None)
    /\ UNCHANGED compilerVars

CallExitScope ==
    /\ scopes' = exit_scope(scopes)
    /\ ret' = Ret("exit_scope", "", None, FALSE, NoError, None)
    /\ UNCHANGED compilerVars

CallDeclare ==
    \E name \in Names, type_val \in ClientTypes :
        LET r == declare(scopes, name, type_val) IN
        /\ scopes' = r.scopes
        /\ ret' = Ret("declare", name, type_val, r.raised, r.error, None)
        /\ UNCHANGED compilerVars

CallLookup ==
    \E name \in Names :
        LET r == lookup(scopes, name) IN
        /\ scopes' = scopes
        /\ ret' = Ret("lookup", name, None, r.raised, r.error,
                      IF r.raised THEN None ELSE r.value)
        /\ UNCHANGED compilerVars

CallUpdate ==
    \E name \in Names, type_val \in ClientTypes :
        LET r == update(scopes, name, type_val) IN
        /\ scopes' = r.scopes
        /\ ret' = Ret("update", name, type_val, r.raised, r.error, None)
        /\ UNCHANGED compilerVars

NextST ==
    \/ CallEnterScope
    \/ CallExitScope
    \/ CallDeclare
    \/ CallLookup
    \/ CallUpdate

SpecST == InitST /\ [][NextST]_vars

---------------------------------------------------------------------------
(* SpecType: one call of Type.get_result_type.  ret is the call: its three *)
(* arguments and, once it has returned, its value.                         *)

\* the twelve operators of get_result_type, and one it does not know
Operators == ArithOps \cup EqOps \cup OrderOps \cup LogicOps \cup {"%"}

TypeCall(left_type, right_type, operator, value) ==
    [op |-> "get_result_type", left_type |-> left_type,
     right_type |-> right_type, operator |-> operator, value |-> value]

InitType ==
    /\ ret \in {TypeCall(l, r, o, None) :
                   l \in Types, r \in Types, o \in Operators}
    /\ scopes = SymbolTable_init
    /\ Idle

CallGetResultType ==
    /\ pc = "idle"
    /\ ret' = TypeCall(ret.left_type, ret.right_type, ret.operator,
                       get_result_type(ret.left_type, ret.right_type,
                                       ret.operator))
    /\ pc' = "returned"
    /\ UNCHANGED <<scopes, ast, stack, errors, success, code, temp_counter,
                   label_counter, result>>

NextType == CallGetResultType

SpecType == InitType /\ [][NextType]_vars

---------------------------------------------------------------------------
(* SpecExpr: one call of _get_expression_type on the expression ast, by an *)
(* analyzer whose table holds at most a declaration of x.  ret is the last *)
(* call, its value the type returned; errors are the diagnostics appended. *)

InitExpr ==
    /\ ast \in ExprsOfDepth(MaxExprDepth)
    /\ scopes = SymbolTable_init
    /\ ret = Ret("__init__", "", None, FALSE, NoError, None)
    /\ pc = "idle"
    /\ stack = <<>>
    /\ errors = <<>>
    /\ success = FALSE
    /\ code = <<>>
    /\ temp_counter = 0
    /\ label_counter = 0
    /\ result = [k |-> "running", code |-> <<>>]

ExprDeclare ==
    /\ pc = "idle"
    /\ scopes = SymbolTable_init
    /\ \E type_val \in Types \ {Type_ERROR} :
          LET r == declare(scopes, "x", type_val) IN
          /\ scopes' = r.scopes
          /\ ret' = Ret("declare", "x", type_val, r.raised, r.error, None)
    /\ UNCHANGED compilerVars

ExprGetType ==
    /\ pc = "idle"
    /\ LET r == get_expression_type(ast, scopes) IN
       /\ errors' = errors \o r.errors
       /\ ret' = Ret("_get_expression_type", "", None, FALSE, NoError, r.type)
    /\ pc' = "typed"
    /\ UNCHANGED <<scopes, ast, stack, success, code, temp_counter,
                   label_counter, result>>

NextExpr ==
    \/ ExprDeclare
    \/ ExprGetType

SpecExpr == InitExpr /\ [][NextExpr]_vars

---------------------------------------------------------------------------
(* Spec: compile_program from the parsed tree on.  The analyzer's recursion *)
(* is the sequence stack of what is still to be done, first thing first:    *)
(*   call        _analyze_node(node) is about to be called;                 *)
(*   for_rest    _analyze_ForLoop(node) has analyzed node.init;             *)
(*   exit_scope  _analyze_Block(node) or _analyze_ForLoop(node) is at its   *)
(*               closing exit_scope().                                      *)
(* entry, in an exit_scope entry, is the scope list the handler was called  *)
(* with: the code keeps no such copy, it is there for the properties that   *)
(* compare a handler's effect with what it found.                           *)

Call(node) == [t |-> "call", node |-> node, entry |-> <<>>]

ForRest(node) == [t |-> "for_rest", node |-> node, entry |-> <<>>]

ExitScope(node, entry) == [t |-> "exit_scope", node |-> node, entry |-> entry]

Calls(nodes) == [i \in 1..Len(nodes) |-> Call(nodes[i])]

analysis_never_failed(ok) == FALSE

\* compile_program, line 762: if not semantic_analyzer.analyze(ast)
analysis_failed(ok) == ~ok

At(t, kind) ==
    /\ pc = "analyze"
    /\ stack # <<>>
    /\ Head(stack).t = t
    /\ Head(stack).node.k = kind

generatorVars == <<code, temp_counter, label_counter>>

\* what the analyzer's handlers leave alone
analyzerFrame == <<ret, ast, pc, success, code, temp_counter, label_counter, result>>

Leaf_stop_at_first_error(r) ==
    /\ scopes' = r.scopes
    /\ errors' = errors \o r.errors
    /\ stack' = IF r.errors # <<>> THEN <<>> ELSE Tail(stack)
    /\ UNCHANGED analyzerFrame

\* a handler that calls no other: its effect, then back to the caller
Leaf(r) ==
    /\ scopes' = r.scopes
    /\ errors' = errors \o r.errors
    /\ stack' = Tail(stack)
    /\ UNCHANGED analyzerFrame

AnalyzeProgram ==
    /\ At("call", "Program")
    /\ stack' = Calls(Head(stack).node.statements) \o Tail(stack)
    /\ UNCHANGED <<scopes, errors>>
    /\ UNCHANGED analyzerFrame

AnalyzeVarDeclaration ==
    /\ At("call", "VarDeclaration")
    /\ Leaf(analyze_VarDeclaration(Head(stack).node, scopes))

AnalyzeAssignment ==
    /\ At("call", "Assignment")
    /\ Leaf(analyze_Assignment(Head(stack).node, scopes))

AnalyzeIfStatement ==
    /\ At("call", "IfStatement")
    /\ LET node == Head(stack).node IN
       /\ errors' = errors \o analyze_condition(node.condition, "if", scopes)
       /\ stack' = <<Call(node.then_branch)>>
                   \o (IF node.else_branch.k # "None"
                       THEN <<Call(node.else_branch)>> ELSE <<>>)
                   \o Tail(stack)
    /\ UNCHANGED scopes
    /\ UNCHANGED analyzerFrame

AnalyzeWhileLoop ==
    /\ At("call", "WhileLoop")
    /\ LET node == Head(stack).node IN
       /\ errors' = errors \o analyze_condition(node.condition, "while", scopes)
       /\ stack' = <<Call(node.body)>> \o Tail(stack)
    /\ UNCHANGED scopes
    /\ UNCHANGED analyzerFrame

AnalyzeForLoop ==
    /\ At("call", "ForLoop")
    /\ LET node == Head(stack).node IN
       /\ scopes' = analyze_ForLoop_enter(scopes)
       /\ stack' = (IF node.init.k # "None" THEN <<Call(node.init)>> ELSE <<>>)
                   \o <<ForRest(node), ExitScope(node, scopes)>>
                   \o Tail(stack)
    /\ UNCHANGED errors
    /\ UNCHANGED analyzerFrame

AnalyzeForLoopRest ==
    /\ At("for_rest", "ForLoop")
    /\ LET node == Head(stack).node IN
       /\ errors' = errors \o analyze_ForLoop_condition_update(node, scopes)
       /\ stack' = <<Call(node.body)>> \o Tail(stack)
    /\ UNCHANGED scopes
    /\ UNCHANGED analyzerFrame

AnalyzePrintStatement ==
    /\ At("call", "PrintStatement")
    /\ Leaf(analyze_PrintStatement(Head(stack).node, scopes))

AnalyzeInputStatement ==
    /\ At("call", "InputStatement")
    /\ Leaf(analyze_InputStatement(Head(stack).node, scopes))

AnalyzeBlock ==
    /\ At("call", "Block")
    /\ LET node == Head(stack).node IN
       /\ scopes' = analyze_Block_enter(scopes)
       /\ stack' = Calls(node.statements) \o <<ExitScope(node, scopes)>>
                   \o Tail(stack)
    /\ UNCHANGED errors
    /\ UNCHANGED analyzerFrame

AnalyzeExitScope ==
    /\ pc = "analyze"
    /\ stack # <<>>
    /\ Head(stack).t = "exit_scope"
    /\ scopes' = IF Head(stack).node.k = "ForLoop"
                 THEN analyze_ForLoop_exit(scopes)
                 ELSE analyze_Block_exit(scopes)
    /\ stack' = Tail(stack)
    /\ UNCHANGED errors
    /\ UNCHANGED analyzerFrame

\* analyze returns: no handler lets an exception out (declare and lookup
\* are called inside try blocks), so the except clauses of lines 334-350
\* are not reached
AnalyzeReturn ==
    /\ pc = "analyze"
    /\ stack = <<>>
    /\ success' = analyze_result(errors)
    /\ pc' = "analyzed"
    /\ UNCHANGED <<scopes, ret, ast, stack, errors, code, temp_counter,
                   label_counter, result>>

\* compile_program, lines 762-766
ReturnNone ==
    /\ pc = "analyzed"
    /\ analysis_failed(success)
    /\ result' = [k |-> "None", code |-> <<>>]
    /\ pc' = "done"
    /\ UNCHANGED <<scopes, ret, ast, stack, errors, success, code,
                   temp_counter, label_counter>>

\* The generator's recursion is the same sequence stack, with
\*   call        _generate_node(node) is about to be called;
\*   after_then, after_else, after_body, after_init
\*               the visitor of node has come back from that call, and
\*               holds labels.
Visitor(t, node, labels) == [t |-> t, node |-> node, labels |-> labels]

GenAt(t, kind) ==
    /\ pc = "generate"
    /\ stack # <<>>
    /\ Head(stack).t = t
    /\ Head(stack).node.k = kind

\* the generator object
Self == [code |-> code, temp_counter |-> temp_counter,
         label_counter |-> label_counter]

SetSelf(g) ==
    /\ code' = g.code
    /\ temp_counter' = g.temp_counter
    /\ label_counter' = g.label_counter

\* what the generator's visitors leave alone
generatorFrame == <<scopes, ret, ast, pc, errors, success, result>>

Generate_same_generator ==
    /\ pc = "analyzed"
    /\ ~analysis_failed(success)
    /\ SetSelf(Self)
    /\ stack' = <<Call(ast)>>
    /\ pc' = "generate"
    /\ UNCHANGED <<scopes, ret, ast, errors, success, result>>

\* compile_program, lines 770-772, up to the call of _generate_node(ast)
Generate ==
    /\ pc = "analyzed"
    /\ ~analysis_failed(success)
    /\ SetSelf(IntermediateCodeGenerator_init)
    /\ stack' = <<Call(ast)>>
    /\ pc' = "generate"
    /\ UNCHANGED <<scopes, ret, ast, errors, success, result>>

GenerateProgram ==
    /\ GenAt("call", "Program")
    /\ stack' = Calls(Head(stack).node.statements) \o Tail(stack)
    /\ UNCHANGED generatorVars
    /\ UNCHANGED generatorFrame

GenerateBlock ==
    /\ GenAt("call", "Block")
    /\ stack' = Calls(Head(stack).node.statements) \o Tail(stack)
    /\ UNCHANGED generatorVars
    /\ UNCHANGED generatorFrame

\* VarDeclaration, Assignment, PrintStatement, InputStatement
GenerateSimpleStatement ==
    /\ pc = "generate"
    /\ stack # <<>>
    /\ Head(stack).t = "call"
    /\ Head(stack).node.k \in {"VarDeclaration", "Assignment",
                               "PrintStatement", "InputStatement"}
    /\ SetSelf(generate_node(Head(stack).node, Self).g)
    /\ stack' = Tail(stack)
    /\ UNCHANGED generatorFrame

GenerateIfStatement ==
    /\ GenAt("call", "IfStatement")
    /\ LET node == Head(stack).node
           r == generate_IfStatement_condition(node, Self)
       IN  /\ SetSelf(r.g)
           /\ stack' = IF r.returned THEN Tail(stack)
                       ELSE <<Call(node.then_branch),
                              Visitor("after_then", node, r.labels)>>
                            \o Tail(stack)
    /\ UNCHANGED generatorFrame

GenerateIfStatementAfterThen ==
    /\ GenAt("after_then", "IfStatement")
    /\ LET node == Head(stack).node
           labels == Head(stack).labels
       IN  /\ SetSelf(generate_IfStatement_after_then(node, Self, labels))
           /\ stack' = IF node.else_branch.k # "None"
                       THEN <<Call(node.else_branch),
                              Visitor("after_else", node, labels)>>
                            \o Tail(stack)
                       ELSE Tail(stack)
    /\ UNCHANGED generatorFrame

GenerateIfStatementAfterElse ==
    /\ GenAt("after_else", "IfStatement")
    /\ SetSelf(generate_IfStatement_after_else(Head(stack).node, Self,
                                               Head(stack).labels))
    /\ stack' = Tail(stack)
    /\ UNCHANGED generatorFrame

GenerateWhileLoop ==
    /\ GenAt("call", "WhileLoop")
    /\ LET node == Head(stack).node
           r == generate_WhileLoop_condition(node, Self)
       IN  /\ SetSelf(r.g)
           /\ stack' = IF r.returned THEN Tail(stack)
                       ELSE <<Call(node.body),
                              Visitor("after_body", node, r.labels)>>
                            \o Tail(stack)
    /\ UNCHANGED generatorFrame

GenerateWhileLoopAfterBody ==
    /\ GenAt("after_body", "WhileLoop")
    /\ SetSelf(generate_WhileLoop_after_body(Head(stack).node, Self,
                                             Head(stack).labels))
    /\ stack' = Tail(stack)
    /\ UNCHANGED generatorFrame

GenerateForLoop ==
    /\ GenAt("call", "ForLoop")
    /\ LET node == Head(stack).node
           r == generate_ForLoop_labels(node, Self)
       IN  /\ SetSelf(r.g)
           /\ stack' = (IF node.init.k # "None"
                        THEN <<Call(node.init)>> ELSE <<>>)
                       \o <<Visitor("after_init", node, r.labels)>>
                       \o Tail(stack)
    /\ UNCHANGED generatorFrame

GenerateForLoopAfterInit ==
    /\ GenAt("after_init", "ForLoop")
    /\ LET node == Head(stack).node
           labels == Head(stack).labels
       IN  /\ SetSelf(generate_ForLoop_after_init(node, Self, labels))
           /\ stack' = <<Call(node.body), Visitor("after_body", node, labels)>>
                       \o Tail(stack)
    /\ UNCHANGED generatorFrame

GenerateForLoopAfterBody ==
    /\ GenAt("after_body", "ForLoop")
    /\ SetSelf(generate_ForLoop_after_body(Head(stack).node, Self,
                                           Head(stack).labels))
    /\ stack' = Tail(stack)
    /\ UNCHANGED generatorFrame

\* generate returns self.code (line 570), compile_program returns it
\* (line 775)
GenerateReturn ==
    /\ pc = "generate"
    /\ stack = <<>>
    /\ result' = [k |-> "code", code |-> code]
    /\ pc' = "done"
    /\ UNCHANGED <<scopes, ret, ast, stack, errors, success, code,
                   temp_counter, label_counter>>

Next ==
    \/ AnalyzeProgram
    \/ AnalyzeVarDeclaration
    \/ AnalyzeAssignment
    \/ AnalyzeIfStatement
    \/ AnalyzeWhileLoop
    \/ AnalyzeForLoop
    \/ AnalyzeForLoopRest
    \/ AnalyzePrintStatement
    \/ AnalyzeInputStatement
    \/ AnalyzeBlock
    \/ AnalyzeExitScope
    \/ AnalyzeReturn
    \/ ReturnNone
    \/ Generate
    \/ GenerateProgram
    \/ GenerateBlock
    \/ GenerateSimpleStatement
    \/ GenerateIfStatement
    \/ GenerateIfStatementAfterThen
    \/ GenerateIfStatementAfterElse
    \/ GenerateWhileLoop
    \/ GenerateWhileLoopAfterBody
    \/ GenerateForLoop
    \/ GenerateForLoopAfterInit
    \/ GenerateForLoopAfterBody
    \/ GenerateReturn

\* after parser.parse, SemanticAnalyzer() and its SymbolTable(); the
\* generator's fields hold what IntermediateCodeGenerator() will give them
Init ==
    /\ ast \in ProgramSet
    /\ pc = "analyze"
    /\ stack = <<Call(ast)>>
    /\ scopes = SymbolTable_init
    /\ errors = <<>>
    /\ success = FALSE
    /\ code = IntermediateCodeGenerator_init.code
    /\ temp_counter = IntermediateCodeGenerator_init.temp_counter
    /\ label_counter = IntermediateCodeGenerator_init.label_counter
    /\ result = [k |-> "running", code |-> <<>>]
    /\ ret = Ret("__init__", "", None, FALSE, NoError, None)

Spec == Init /\ [][Next]_vars

---------------------------------------------------------------------------
(* SpecAnyName: compile_program also on programs whose variables have      *)
(* names of the form t<N>: NAME tokens reach the nodes as they were read   *)
(* (line 199), and the visitors write node.name into the instructions as   *)
(* it is (lines 608, 613, 696).                                            *)

TempNamedPrograms ==
    {Program(<<VarDeclaration("t0", IntLit)>>),
     Program(<<VarDeclaration("t0", IntLit),
               PrintStatement(<<Variable("t0")>>)>>),
     Program(<<VarDeclaration("t1", IntLit),
               PrintStatement(<<BinaryOp(IntLit, "+", Variable("t1"))>>)>>)}

InitAnyName ==
    /\ ast \in ProgramSet \cup TempNamedPrograms
    /\ pc = "analyze"
    /\ stack = <<Call(ast)>>
    /\ scopes = SymbolTable_init
    /\ errors = <<>>
    /\ success = FALSE
    /\ code = IntermediateCodeGenerator_init.code
    /\ temp_counter = IntermediateCodeGenerator_init.temp_counter
    /\ label_counter = IntermediateCodeGenerator_init.label_counter
    /\ result = [k |-> "running", code |-> <<>>]
    /\ ret = Ret("__init__", "", None, FALSE, NoError, None)

SpecAnyName == InitAnyName /\ [][Next]_vars

---------------------------------------------------------------------------
(* SpecRerun: compile_program, and then a second generator run for the    *)
(* same tree: generate has returned, what it returned and the counters it  *)
(* left are kept in ret, and lines 770-772 are run again, with a new       *)
(* IntermediateCodeGenerator().                                            *)

FirstRun == [code |-> result.code, temp_counter |-> temp_counter,
             label_counter |-> label_counter]

Rerun ==
    /\ pc = "done"
    /\ result.k = "code"
    /\ ret.op = "__init__"
    /\ ret' = Ret("generate", "", None, FALSE, NoError, FirstRun)
    /\ result' = [k |-> "running", code |-> <<>>]
    /\ pc' = "analyzed"
    /\ UNCHANGED <<scopes, ast, stack, errors, success, code, temp_counter,
                   label_counter>>

NextRerun ==
    \/ Next
    \/ Rerun

SpecRerun == Init /\ [][NextRerun]_vars

---------------------------------------------------------------------------
(* SpecLower: one call of _generate_node on an expression, as the visitors *)
(* of the statements make it: the expression has been typed without a     *)
(* diagnostic (SpecExpr's steps), and the generator may have lowered       *)
(* literals of earlier statements before.                                  *)

MaxPrior == 1       \* SpecLower: the literals lowered before the call

LowerPrior ==
    /\ pc = "typed"
    /\ errors = <<>>
    /\ temp_counter < MaxPrior
    /\ SetSelf(generate_Literal(IntLit, Self).g)
    /\ UNCHANGED <<scopes, ret, ast, pc, stack, errors, success, result>>

LowerExpr ==
    /\ pc = "typed"
    /\ errors = <<>>
    /\ LET r == generate_node(ast, Self) IN
       /\ SetSelf(r.g)
       /\ ret' = Ret("_generate_node", "", None, FALSE, NoError, r.temp)
    /\ pc' = "lowered"
    /\ UNCHANGED <<scopes, ast, stack, errors, success, result>>

NextLower ==
    \/ ExprDeclare
    \/ ExprGetType
    \/ LowerPrior
    \/ LowerExpr

SpecLower == InitExpr /\ [][NextLower]_vars

---------------------------------------------------------------------------
(* SpecTwoRuns: two runs of compile_program on two trees, their steps      *)
(* interleaved.  A run is the record of what one call of compile_program   *)
(* works on; RunStep is the step Next takes, on that record.  Every        *)
(* variable holds two values: ast, pc, stack, success and result one per   *)
(* run, scopes and errors one per SemanticAnalyzer object, code and the    *)
(* counters one per IntermediateCodeGenerator object.                      *)

Run(tree) ==
    [ast |-> tree, pc |-> "analyze", stack |-> <<Call(tree)>>,
     scopes |-> SymbolTable_init, errors |-> <<>>, success |-> FALSE,
     code |-> IntermediateCodeGenerator_init.code,
     temp_counter |-> IntermediateCodeGenerator_init.temp_counter,
     label_counter |-> IntermediateCodeGenerator_init.label_counter,
     result |-> [k |-> "running", code |-> <<>>]]

\* the generator object of a run, and the run with that object changed
GeneratorOfRun(r) ==
    [code |-> r.code, temp_counter |-> r.temp_counter,
     label_counter |-> r.label_counter]

WithGenerator(r, g) ==
    [r EXCEPT !.code = g.code, !.temp_counter = g.temp_counter,
              !.label_counter = g.label_counter]

\* _analyze_node and the handlers (the Analyze actions of Spec)
AnalyzeStep(r) ==
    LET f == Head(r.stack)
        node == f.node
        rest == Tail(r.stack)
        leaf(a) == [r EXCEPT !.scopes = a.scopes, !.errors = @ \o a.errors,
                             !.stack = rest]
    IN  CASE f.t = "exit_scope" ->
                [r EXCEPT !.scopes = IF node.k = "ForLoop"
                                     THEN analyze_ForLoop_exit(@)
                                     ELSE analyze_Block_exit(@),
                          !.stack = rest]
          [] f.t = "for_rest" ->
                [r EXCEPT !.errors = @ \o analyze_ForLoop_condition_update(
                                              node, r.scopes),
                          !.stack = <<Call(node.body)>> \o rest]
          [] f.t = "call" /\ node.k = "Program" ->
                [r EXCEPT !.stack = Calls(node.statements) \o rest]
          [] f.t = "call" /\ node.k = "VarDeclaration" ->
                leaf(analyze_VarDeclaration(node, r.scopes))
          [] f.t = "call" /\ node.k = "Assignment" ->
                leaf(analyze_Assignment(node, r.scopes))
          [] f.t = "call" /\ node.k = "PrintStatement" ->
                leaf(analyze_PrintStatement(node, r.scopes))
          [] f.t = "call" /\ node.k = "InputStatement" ->
                leaf(analyze_InputStatement(node, r.scopes))
          [] f.t = "call" /\ node.k = "IfStatement" ->
                [r EXCEPT !.errors = @ \o analyze_condition(node.condition,
                                                           "if", r.scopes),
                          !.stack = <<Call(node.then_branch)>>
                                    \o (IF node.else_branch.k # "None"
                                        THEN <<Call(node.else_branch)>>
                                        ELSE <<>>)
                                    \o rest]
          [] f.t = "call" /\ node.k = "WhileLoop" ->
                [r EXCEPT !.errors = @ \o analyze_condition(node.condition,
                                                           "while", r.scopes),
                          !.stack = <<Call(node.body)>> \o rest]
          [] f.t = "call" /\ node.k = "ForLoop" ->
                [r EXCEPT !.scopes = analyze_ForLoop_enter(@),
                          !.stack = (IF node.init.k # "None"
                                     THEN <<Call(node.init)>> ELSE <<>>)
                                    \o <<ForRest(node),
                                         ExitScope(node, r.scopes)>>
                                    \o rest]
          [] f.t = "call" /\ node.k = "Block" ->
                [r EXCEPT !.scopes = analyze_Block_enter(@),
                          !.stack = Calls(node.statements)
                                    \o <<ExitScope(node, r.scopes)>>
                                    \o rest]

\* _generate_node and the visitors (the Generate actions of Spec)
GenerateStep(r) ==
    LET f == Head(r.stack)
        node == f.node
        rest == Tail(r.stack)
        g == GeneratorOfRun(r)
        to(g2, st) == WithGenerator([r EXCEPT !.stack = st], g2)
    IN  CASE f.t = "call" /\ node.k \in {"Program", "Block"} ->
                [r EXCEPT !.stack = Calls(node.statements) \o rest]
          [] f.t = "call" /\ node.k \in {"VarDeclaration", "Assignment",
                                         "PrintStatement", "InputStatement"} ->
                to(generate_node(node, g).g, rest)
          [] f.t = "call" /\ node.k = "IfStatement" ->
                LET c == generate_IfStatement_condition(node, g)
                IN  to(c.g, IF c.returned THEN rest
                            ELSE <<Call(node.then_branch),
                                   Visitor("after_then", node, c.labels)>>
                                 \o rest)
          [] f.t = "after_then" ->
                to(generate_IfStatement_after_then(node, g, f.labels),
                   IF node.else_branch.k # "None"
                   THEN <<Call(node.else_branch),
                          Visitor("after_else", node, f.labels)>> \o rest
                   ELSE rest)
          [] f.t = "after_else" ->
                to(generate_IfStatement_after_else(node, g, f.labels), rest)
          [] f.t = "call" /\ node.k = "WhileLoop" ->
                LET c == generate_WhileLoop_condition(node, g)
                IN  to(c.g, IF c.returned THEN rest
                            ELSE <<Call(node.body),
                                   Visitor("after_body", node, c.labels)>>
                                 \o rest)
          [] f.t = "after_body" /\ node.k = "WhileLoop" ->
                to(generate_WhileLoop_after_body(node, g, f.labels), rest)
          [] f.t = "call" /\ node.k = "ForLoop" ->
                LET l == generate_ForLoop_labels(node, g)
                IN  to(l.g, (IF node.init.k # "None"
                             THEN <<Call(node.init)>> ELSE <<>>)
                            \o <<Visitor("after_init", node, l.labels)>>
                            \o rest)
          [] f.t = "after_init" ->
                to(generate_ForLoop_after_init(node, g, f.labels),
                   <<Call(node.body), Visitor("after_body", node, f.labels)>>
                   \o rest)
          [] f.t = "after_body" /\ node.k = "ForLoop" ->
                to(generate_ForLoop_after_body(node, g, f.labels), rest)

\* compile_program, lines 757-775: the step of a run that has not returned
RunStep(r) ==
    CASE r.pc = "analyze" /\ r.stack # <<>> -> AnalyzeStep(r)
      [] r.pc = "analyze" /\ r.stack = <<>> ->
            [r EXCEPT !.success = analyze_result(r.errors), !.pc = "analyzed"]
      [] r.pc = "analyzed" /\ analysis_failed(r.success) ->
            [r EXCEPT !.result = [k |-> "None", code |-> <<>>], !.pc = "done"]
      [] r.pc = "analyzed" /\ ~analysis_failed(r.success) ->
            WithGenerator([r EXCEPT !.stack = <<Call(r.ast)>>,
                                    !.pc = "generate"],
                          IntermediateCodeGenerator_init)
      [] r.pc = "generate" /\ r.stack # <<>> -> GenerateStep(r)
      [] r.pc = "generate" /\ r.stack = <<>> ->
            [r EXCEPT !.result = [k |-> "code", code |-> r.code],
                      !.pc = "done"]

\* the run compile_program makes of a tree when nothing else runs: every
\* state it goes through, and the one it returns in
RECURSIVE RunAlone(_)
RunAlone(r) == IF r.pc = "done" THEN {r} ELSE {r} \cup RunAlone(RunStep(r))

\* the trees of the two runs: one statement, after var x = 1; or alone
TwoRunStmts ==
    {PrintStatement(<<Variable("x")>>), VarDeclaration("x", Len5),
     DeclBlock, IfStatement(XltOne, PrintBlock, DeclBlock),
     WhileLoop(XltOne, StepBlock), CountLoop(XplusOne)}

TwoRunTrees ==
    {Program(<<st>>) : st \in TwoRunStmts}
    \cup {Program(<<VarDeclaration("x", IntLit), st>>) : st \in TwoRunStmts}

Runs == {1, 2}

\* compile_program, line 761: each run creates its SemanticAnalyzer (and
\* that its SymbolTable); the object of run is the run-th
SemanticAnalyzerOf(run) == run

IntermediateCodeGenerator_shared(run) ==
    CHOOSE g \in Runs : \A other \in Runs : g <= other

\* compile_program, line 771: each run creates its IntermediateCodeGenerator
IntermediateCodeGeneratorOf(run) == run

\* the run as its call of compile_program sees it
RunOf(run) ==
    LET a == SemanticAnalyzerOf(run)
        g == IntermediateCodeGeneratorOf(run)
    IN  [ast |-> ast[run], pc |-> pc[run], stack |-> stack[run],
         scopes |-> scopes[a], errors |-> errors[a], success |-> success[run],
         code |-> code[g], temp_counter |-> temp_counter[g],
         label_counter |-> label_counter[g], result |-> result[run]]

InitTwoRuns ==
    /\ ast \in [Runs -> TwoRunTrees]
    /\ pc = [run \in Runs |-> "analyze"]
    /\ stack = [run \in Runs |-> <<Call(ast[run])>>]
    /\ success = [run \in Runs |-> FALSE]
    /\ result = [run \in Runs |-> [k |-> "running", code |-> <<>>]]
    /\ scopes = [a \in Runs |-> SymbolTable_init]
    /\ errors = [a \in Runs |-> <<>>]
    /\ code = [g \in Runs |-> IntermediateCodeGenerator_init.code]
    /\ temp_counter = [g \in Runs |-> IntermediateCodeGenerator_init.temp_counter]
    /\ label_counter = [g \in Runs |-> IntermediateCodeGenerator_init.label_counter]
    /\ ret = Ret("__init__", "", None, FALSE, NoError, None)

\* one step of one of the runs
StepRun(run) ==
    /\ pc[run] # "done"
    /\ LET r == RunStep(RunOf(run))
           a == SemanticAnalyzerOf(run)
           g == IntermediateCodeGeneratorOf(run)
       IN  /\ pc' = [pc EXCEPT ![run] = r.pc]
           /\ stack' = [stack EXCEPT ![run] = r.stack]
           /\ success' = [success EXCEPT ![run] = r.success]
           /\ result' = [result EXCEPT ![run] = r.result]
           /\ scopes' = [scopes EXCEPT ![a] = r.scopes]
           /\ errors' = [errors EXCEPT ![a] = r.errors]
           /\ code' = [code EXCEPT ![g] = r.code]
           /\ temp_counter' = [temp_counter EXCEPT ![g] = r.temp_counter]
           /\ label_counter' = [label_counter EXCEPT ![g] = r.label_counter]
    /\ UNCHANGED <<ast, ret>>

NextTwoRuns ==
    \/ StepRun(1)
    \/ StepRun(2)

SpecTwoRuns == InitTwoRuns /\ [][NextTwoRuns]_vars

---------------------------------------------------------------------------
(* SpecGenerateTwice: compile_program, and then a second call of generate  *)
(* for the same tree on the generator object of the first: generate        *)
(* (lines 568-570) calls _generate_node(ast) on self as it is.  What the   *)
(* first call returned and the counters it left are kept in ret.           *)

GenerateAgain ==
    /\ pc = "done"
    /\ result.k = "code"
    /\ ret.op = "__init__"
    /\ ret' = Ret("generate", "", None, FALSE, NoError, FirstRun)
    /\ result' = [k |-> "running", code |-> <<>>]
    /\ stack' = <<Call(ast)>>
    /\ pc' = "generate"
    /\ UNCHANGED <<scopes, ast, errors, success, code, temp_counter,
                   label_counter>>

NextGenerateTwice ==
    \/ Next
    \/ GenerateAgain

SpecGenerateTwice == Init /\ [][NextGenerateTwice]_vars

---------------------------------------------------------------------------
(* Properties of the SymbolTable, checked under SpecST.  A step of method  *)
(* m is a step whose ret' names m; the scope list before it is scopes.     *)

Top(sc) == sc[Len(sc)]

\* the scopes of sc that contain name
Holders(sc, name) == {i \in 1..Len(sc) : name \in DOMAIN sc[i]}

Max(S) == CHOOSE m \in S : \A n \in S : n <= m

\* C3: declare(name, type) raises the duplicate-declaration error if and
\* only if name is already in the innermost scope; otherwise (also when an
\* outer scope holds name) it adds name -> type to the innermost scope and
\* touches nothing else.  A failing declare leaves the scope list unchanged.
C3_DeclareDuplicateOnlyInnermost ==
    [][ret'.op = "declare" =>
        LET d == Len(scopes) IN
        /\ ret'.raised <=> ret'.name \in DOMAIN Top(scopes)
        /\ ret'.raised =>
              /\ scopes' = scopes
              /\ ret'.error = SemanticError("ya declarada", ret'.name)
        /\ ~ret'.raised =>
              /\ Len(scopes') = d
              /\ \A i \in 1..(d - 1) : scopes'[i] = scopes[i]
              /\ DOMAIN scopes'[d] = DOMAIN scopes[d] \cup {ret'.name}
              /\ scopes'[d][ret'.name] = ret'.type_val
              /\ \A n \in DOMAIN scopes[d] : scopes'[d][n] = scopes[d][n]
    ]_vars

\* C3 witness: a declare that succeeded although an outer scope holds the
\* same name with another type (shadowing).
C3_Witness ==
    /\ ret.op = "declare"
    /\ ~ret.raised
    /\ Len(scopes) >= 2
    /\ \E i \in 1..(Len(scopes) - 1) :
          /\ ret.name \in DOMAIN scopes[i]
          /\ scopes[i][ret.name] # Top(scopes)[ret.name]

\* C4: lookup(name) returns the type recorded in the innermost scope that
\* contains name, raises the undeclared-variable error exactly when no scope
\* contains it, and leaves the scope list unchanged.
C4_LookupInnermost ==
    [][ret'.op = "lookup" =>
        LET hs == Holders(scopes, ret'.name) IN
        /\ scopes' = scopes
        /\ ret'.raised <=> hs = {}
        /\ ret'.raised => ret'.error = SemanticError("no declarada", ret'.name)
        /\ ~ret'.raised => ret'.value = scopes[Max(hs)][ret'.name]
    ]_vars

\* C4 witness: a lookup of a name held by two scopes with different types
\* returned the inner one.
C4_Witness ==
    /\ ret.op = "lookup"
    /\ ~ret.raised
    /\ \E i, j \in Holders(scopes, ret.name) :
          /\ i < j
          /\ scopes[i][ret.name] # scopes[j][ret.name]
          /\ ret.value = scopes[j][ret.name]

\* C5: the scope list never becomes empty; exit_scope removes exactly the
\* innermost scope when there are at least two and changes nothing when only
\* the global scope is left.
C5_GlobalScopeNeverPopped ==
    [][/\ Len(scopes) >= 1
       /\ Len(scopes') >= 1
       /\ ret'.op = "exit_scope" =>
             IF Len(scopes) > 1
             THEN scopes' = SubSeq(scopes, 1, Len(scopes) - 1)
             ELSE scopes' = scopes
    ]_vars

\* C5 witness: exit_scope was called with only the global scope, which holds
\* a declaration, and the scope is still there.
C5_Witness ==
    /\ ret.op = "exit_scope"
    /\ Len(scopes) = 1
    /\ DOMAIN scopes[1] # {}

\* C6: no step changes or removes the type recorded for a name in a scope
\* that stays on the list, and update(name, type) leaves the whole list
\* unchanged, raising the undeclared-before-assignment error exactly when no
\* scope contains name.
C6_TypeFixedAtDeclaration ==
    [][/\ \A i \in 1..Len(scopes) :
            i <= Len(scopes') =>
                \A n \in DOMAIN scopes[i] :
                    /\ n \in DOMAIN scopes'[i]
                    /\ scopes'[i][n] = scopes[i][n]
       /\ ret'.op = "update" =>
            /\ scopes' = scopes
            /\ ret'.raised <=> Holders(scopes, ret'.name) = {}
            /\ ret'.raised =>
                 ret'.error =
                    SemanticError("no declarada antes de la asignacion", ret'.name)
    ]_vars

\* C6 witness: an update with a type other than the recorded one succeeded
\* and the recorded type is still the old one.
C6_Witness ==
    /\ ret.op = "update"
    /\ ~ret.raised
    /\ lookup(scopes, ret.name).value # ret.type_val

---------------------------------------------------------------------------
(* Properties of compile_program and the analyzer, checked under Spec.  A  *)
(* step taken where At(t, kind) holds is the step of that handler.         *)

\* C1: the generator runs only after analyze returned true: the generator
\* is running, or a result that is code, or any instruction, temporary or
\* label exists, only with success true and no diagnostic; and when
\* diagnostics were recorded compile_program returns None and the generator
\* has produced nothing.
C1_GenerationGated ==
    /\ (pc = "generate" \/ result.k = "code" \/ code # <<>>
           \/ temp_counter # 0 \/ label_counter # 0)
          => (pc \in {"generate", "done"} /\ success /\ errors = <<>>)
    /\ (pc = "done" /\ errors # <<>>)
          => (result.k = "None" /\ code = <<>> /\ temp_counter = 0
              /\ label_counter = 0)

\* C1 witness: compile_program returned None for var x = len(5); whose only
\* diagnostic is len's argument type.
C1_Witness ==
    /\ pc = "done"
    /\ ast = Program(<<VarDeclaration("x", Len5)>>)
    /\ errors = <<Diagnostic("funcion 'len' espera un string", "len",
                             <<Type_INT>>)>>
    /\ result.k = "None"

\* C2: once analyze has returned, its result is true exactly when the
\* diagnostics list is empty, and the list stays as analyze left it.
C2_AnalyzeResult ==
    [][/\ pc' \in {"analyzed", "done"} => (success' <=> errors' = <<>>)
       /\ pc # "analyze" => errors' = errors
    ]_vars

\* C2 witness: analyze returned false with two diagnostics recorded.
C2_Witness ==
    /\ pc = "analyzed"
    /\ ~success
    /\ Len(errors) = 2

\* C7: _analyze_ForLoop pushes one scope before anything else and its last
\* step pops it, leaving the scope list as the loop found it; so the
\* variable its init declares is undeclared for a Variable reference after
\* the loop exactly when no scope the loop was entered in holds that name.
C7_ForLoopScope ==
    [][/\ At("call", "ForLoop") => scopes' = Append(scopes, EmptyScope)
       /\ At("exit_scope", "ForLoop") =>
            LET f == Head(stack) IN
            /\ Len(scopes) = Len(f.entry) + 1
            /\ scopes' = f.entry
            /\ f.node.init.k = "VarDeclaration" =>
                 LET n == f.node.init.name IN
                 /\ Holders(f.entry, n) = {} =>
                      get_expression_type(Variable(n), scopes').errors
                         = <<SemanticError("no declarada", n)>>
                 /\ Holders(f.entry, n) # {} =>
                      get_expression_type(Variable(n), scopes')
                         = get_expression_type(Variable(n), f.entry)
    ]_vars

\* C7 witness: for (var x = 1; x < 1; ) { print(x); } print(x); has been
\* analyzed and its one diagnostic is the undeclared x of the last print.
C7_Witness ==
    /\ pc = "analyzed"
    /\ ast = Program(<<CountLoop(NoNode), PrintStatement(<<Variable("x")>>)>>)
    /\ errors = <<SemanticError("no declarada", "x")>>
    /\ scopes = SymbolTable_init

\* C8: _analyze_Block pushes one scope on entry and its last step pops it,
\* leaving the scope list exactly as the Block found it: every name resolves
\* afterwards as it did before the Block (a name declared only in the Block
\* is undeclared again, a shadowed outer name has its outer type again).
C8_BlockScope ==
    [][/\ At("call", "Block") => scopes' = Append(scopes, EmptyScope)
       /\ At("exit_scope", "Block") =>
            LET f == Head(stack) IN
            /\ Len(scopes) = Len(f.entry) + 1
            /\ scopes' = f.entry
            /\ \A n \in DOMAIN Top(scopes) :
                  /\ Holders(f.entry, n) = {} => lookup(scopes', n).raised
                  /\ Holders(f.entry, n) # {} =>
                        lookup(scopes', n) = lookup(f.entry, n)
    ]_vars

\* C8 witness: var x = 1; { var x = "a"; } has been analyzed without a
\* diagnostic and x is an int again.
C8_Witness ==
    /\ pc = "analyzed"
    /\ ast = Program(<<VarDeclaration("x", IntLit), DeclBlock>>)
    /\ errors = <<>>
    /\ scopes = <<[x |-> Type_INT]>>

\* C9, as claimed: a VarDeclaration whose initializer resolves to error
\* still declares the variable (with type error when the name is new in the
\* innermost scope), so that a reference to it right after resolves without
\* an undeclared-variable diagnostic.
C9_ErrorInitializerStillDeclares ==
    [][At("call", "VarDeclaration") =>
        LET node == Head(stack).node IN
        (/\ node.initial_value.k # "None"
         /\ get_expression_type(node.initial_value, scopes).type = Type_ERROR)
        =>
        /\ node.name \in DOMAIN Top(scopes')
        /\ node.name \notin DOMAIN Top(scopes) =>
              Top(scopes')[node.name] = Type_ERROR
        /\ get_expression_type(Variable(node.name), scopes').errors = <<>>
    ]_vars

\* C10: a VarDeclaration whose initializer resolves to a type other than
\* error calls declare with exactly that type, and one without initializer
\* with int: a name new to the innermost scope is recorded there with that
\* type; a name already there keeps its entry and gets the duplicate
\* diagnostic.
C10_DeclaredType ==
    [][At("call", "VarDeclaration") =>
        LET node == Head(stack).node
            init == IF node.initial_value.k = "None"
                    THEN [type |-> Type_INT, errors |-> <<>>]
                    ELSE get_expression_type(node.initial_value, scopes)
        IN  init.type # Type_ERROR =>
            /\ scopes' = declare(scopes, node.name, init.type).scopes
            /\ node.name \notin DOMAIN Top(scopes) =>
                  /\ node.name \in DOMAIN Top(scopes')
                  /\ Top(scopes')[node.name] = init.type
                  /\ errors' = errors \o init.errors
            /\ node.name \in DOMAIN Top(scopes) =>
                  /\ scopes' = scopes
                  /\ errors' = errors \o init.errors
                                \o <<SemanticError("ya declarada", node.name)>>
    ]_vars

\* C10 witness: var x = "a"; var y; has been analyzed: x is a string, y an
\* int.
C10_Witness ==
    /\ pc = "analyzed"
    /\ ast = Program(<<VarDeclaration("x", StrLit), VarDeclaration("y", NoNode)>>)
    /\ scopes = <<[x |-> Type_STRING, y |-> Type_INT]>>
    /\ errors = <<>>

---------------------------------------------------------------------------
(* Properties of the analyzer's typing rules, checked under Spec.          *)

\* the diagnostics a step appends
Added == SubSeq(errors', Len(errors) + 1, Len(errors'))

\* C11: an Assignment to a declared variable of type T with an expression
\* of non-error type E adds no diagnostic when T = E or (T = float and
\* E = int), and in every other case exactly one type-mismatch diagnostic
\* naming E, the variable and T; the scope list, and so the variable's
\* recorded type, is unchanged either way.
C11_AssignmentCompatibility ==
    [][At("call", "Assignment") =>
        LET node == Head(stack).node
            v == lookup(scopes, node.name)
            e == get_expression_type(node.value, scopes)
        IN  (~v.raised /\ e.type # Type_ERROR) =>
            /\ scopes' = scopes
            /\ lookup(scopes', node.name).value = v.value
            /\ IF v.value = e.type
                  \/ (v.value = Type_FLOAT /\ e.type = Type_INT)
               THEN Added = <<>>
               ELSE Added = <<Diagnostic("no se puede asignar tipo", node.name,
                                         <<e.type, v.value>>)>>
    ]_vars

\* C11 witness: var x = 1.5; x = 1; has been analyzed without a diagnostic
\* (widening), and x is still a float.
C11_Witness ==
    /\ pc = "analyzed"
    /\ ast = Program(<<VarDeclaration("x", FloatLit), Assignment("x", IntLit)>>)
    /\ errors = <<>>
    /\ scopes = <<[x |-> Type_FLOAT]>>

\* what the condition of an if, while or for is to add: the diagnostics of
\* the condition's own subexpressions, then one invalid-condition
\* diagnostic when its type is string
ConditionAdds(condition, of, sc) ==
    LET c == get_expression_type(condition, sc)
    IN  c.errors \o
        (IF c.type = Type_STRING
         THEN <<Diagnostic("condicion debe ser booleana o numerica", of,
                           <<Type_STRING>>)>>
         ELSE <<>>)

\* C12: the condition of an IfStatement, WhileLoop or ForLoop typed boolean,
\* int or float adds no diagnostic, one typed error adds nothing beyond what
\* its subexpressions reported, one typed string adds exactly one
\* invalid-condition diagnostic; and in every case the branches or the body
\* are the next things analyzed.
C12_ConditionTypes ==
    [][/\ At("call", "IfStatement") =>
            LET node == Head(stack).node IN
            /\ Added = ConditionAdds(node.condition, "if", scopes)
            /\ get_expression_type(node.condition, scopes).type
                  \in {Type_BOOLEAN, Type_INT, Type_FLOAT} => Added = <<>>
            /\ stack'[1] = Call(node.then_branch)
            /\ node.else_branch.k # "None" =>
                  stack'[2] = Call(node.else_branch)
            /\ Len(stack') = Len(stack)
                  + (IF node.else_branch.k # "None" THEN 1 ELSE 0)
       /\ At("call", "WhileLoop") =>
            LET node == Head(stack).node IN
            /\ Added = ConditionAdds(node.condition, "while", scopes)
            /\ get_expression_type(node.condition, scopes).type
                  \in {Type_BOOLEAN, Type_INT, Type_FLOAT} => Added = <<>>
            /\ stack' = <<Call(node.body)>> \o Tail(stack)
       /\ (At("for_rest", "ForLoop") /\ Head(stack).node.condition.k # "None") =>
            LET node == Head(stack).node
                cond == ConditionAdds(node.condition, "for", scopes)
            IN  /\ Len(Added) >= Len(cond)
                /\ SubSeq(Added, 1, Len(cond)) = cond
                /\ node.update.k = "None" => Added = cond
                /\ (/\ node.update.k = "None"
                    /\ get_expression_type(node.condition, scopes).type
                          \in {Type_BOOLEAN, Type_INT, Type_FLOAT})
                      => Added = <<>>
                /\ stack' = <<Call(node.body)>> \o Tail(stack)
    ]_vars

\* C12 witness: for (x = 1; "a"; ) { print(x); } with x undeclared has been
\* analyzed: the init's diagnostic, one invalid-condition diagnostic for the
\* string, and the diagnostic of the body, which was still analyzed.
C12_Witness ==
    /\ pc = "analyzed"
    /\ ast = Program(<<ForLoop(Assignment("x", IntLit), StrLit, NoNode,
                               PrintBlock)>>)
    /\ errors = <<SemanticError("no declarada", "x"),
                  Diagnostic("condicion debe ser booleana o numerica", "for",
                             <<Type_STRING>>),
                  SemanticError("no declarada", "x")>>

\* the statements a handler is to have analyzed before it returns, in the
\* order of its calls of _analyze_node
Children(node) ==
    CASE node.k \in {"Program", "Block"} -> node.statements
      [] node.k = "IfStatement" ->
            <<node.then_branch>>
            \o (IF node.else_branch.k # "None" THEN <<node.else_branch>> ELSE <<>>)
      [] node.k = "WhileLoop" -> <<node.body>>
      [] node.k = "ForLoop" ->
            (IF node.init.k # "None" THEN <<node.init>> ELSE <<>>) \o <<node.body>>
      [] OTHER -> <<>>

\* the nodes of the pending calls of _analyze_node, first call first; a
\* ForLoop whose init has been analyzed still owes its body
Pending(st) ==
    LET owed(f) == CASE f.t = "call" -> <<f.node>>
                     [] f.t = "for_rest" -> <<f.node.body>>
                     [] OTHER -> <<>>
        RECURSIVE all(_)
        all(i) == IF i > Len(st) THEN <<>> ELSE owed(st[i]) \o all(i + 1)
    IN  all(1)

C27_ForUpdateAssignment ==
    [][(At("for_rest", "ForLoop") /\ Head(stack).node.update.k = "Assignment")
        =>
        LET node == Head(stack).node
            cond == IF node.condition.k # "None"
                    THEN ConditionAdds(node.condition, "for", scopes)
                    ELSE <<>>
        IN  Added = cond \o analyze_Assignment(node.update, scopes).errors
    ]_vars

\* C30, as claimed: an Assignment whose target is undeclared still has its
\* right-hand side analyzed: the step adds the target's undeclared-variable
\* diagnostic and the diagnostics of the right-hand expression (in either
\* order).
C30_UndeclaredTargetStillTypesValue ==
    [][At("call", "Assignment") =>
        LET node == Head(stack).node
            v == lookup(scopes, node.name)
            e == get_expression_type(node.value, scopes)
        IN  v.raised =>
               \/ Added = <<SemanticError("no declarada", node.name)>> \o e.errors
               \/ Added = e.errors \o <<SemanticError("no declarada", node.name)>>
    ]_vars

---------------------------------------------------------------------------
(* Properties of the generator's names, checked under Spec.                *)

\* the first n names _new_temp and _new_label hand out from counter 0 on
TempNames(n) == [i \in 1..n |-> "t" \o ToString(i - 1)]

LabelNames(n) == {"L" \o ToString(i) : i \in 0..(n - 1)}

\* the temporaries an instruction sequence was handed, in order: every
\* visitor that calls _new_temp emits next the instruction whose result is
\* that temporary (the ASSIGN of a variable has the variable there)
HandedTemps(instructions) ==
    LET results == SelectSeq(instructions,
                       LAMBDA i : /\ i[1] \notin {"PRINT", "INPUT", "IF_FALSE",
                                                  "IF_TRUE", "GOTO", "LABEL"}
                                  /\ ~(i[1] = "ASSIGN" /\ i[2] \in Names))
    IN  [n \in 1..Len(results) |-> results[n][2]]

\* the labels an instruction sequence places, in order
PlacedLabels(instructions) ==
    LET labels == SelectSeq(instructions, LAMBDA i : i[1] = "LABEL")
    IN  [n \in 1..Len(labels) |-> labels[n][2]]

\* the labels an instruction sequence jumps to
TargetLabels(instructions) ==
    {instructions[n][Len(instructions[n])] :
        n \in {m \in 1..Len(instructions) :
                  instructions[m][1] \in {"GOTO", "IF_FALSE", "IF_TRUE"}}}

\* the labels the visitors that have not returned hold
HeldLabels(st) ==
    UNION {{st[n].labels[m] : m \in 1..Len(st[n].labels)} :
              n \in {i \in 1..Len(st) : st[i].t # "call"}}

\* C19: from IntermediateCodeGenerator() on, the temporaries handed out so
\* far are t0, t1, ... up to the counter, in that order, and the labels
\* handed out so far (placed, jumped to or held by a visitor) are exactly
\* L0, L1, ... up to the counter; no label is placed twice, and none is
\* left unplaced when generate returns; neither counter ever decreases.
C19_FreshNames ==
    [][pc' \in {"generate", "done"} =>
        LET placed == PlacedLabels(code') IN
        /\ pc = "analyzed" => (temp_counter' = 0 /\ label_counter' = 0)
        /\ pc # "analyzed" =>
              /\ temp_counter' >= temp_counter
              /\ label_counter' >= label_counter
        /\ HandedTemps(code') = TempNames(temp_counter')
        /\ {placed[n] : n \in 1..Len(placed)} \cup TargetLabels(code')
              \cup (IF pc' = "generate" THEN HeldLabels(stack') ELSE {})
              = LabelNames(label_counter')
        /\ \A n, m \in 1..Len(placed) : placed[n] = placed[m] => n = m
        /\ pc' = "done" => Len(placed) = label_counter'
    ]_vars

\* C19 witness: var x = 1; while (x < 1) { x = x + 1; } has been generated
\* with temporaries t0..t6 and labels L0, L1.
C19_Witness ==
    /\ pc = "done"
    /\ result.k = "code"
    /\ ast = Program(<<VarDeclaration("x", IntLit),
                       WhileLoop(XltOne, StepBlock)>>)
    /\ temp_counter = 7
    /\ label_counter = 2
    /\ PlacedLabels(code) = <<"L0", "L1">>
    /\ HandedTemps(code) = <<"t0", "t1", "t2", "t3", "t4", "t5", "t6">>

---------------------------------------------------------------------------
(* Properties of the lowering of statements, checked under Spec.           *)

\* where an instruction sequence has instruction op with that label last
Mentioning(instructions, op, label) ==
    {n \in 1..Len(instructions) :
        /\ instructions[n][1] = op
        /\ instructions[n][Len(instructions[n])] = label}

\* where an instruction sequence names the label at all
Naming(instructions, label) ==
    {n \in 1..Len(instructions) :
        /\ instructions[n][1] \in {"GOTO", "IF_FALSE", "IF_TRUE", "LABEL"}
        /\ instructions[n][Len(instructions[n])] = label}

\* the one place of the set
Only(S) == CHOOSE n \in S : TRUE

\* the name of the k-th label from now
NextLabel(k) == "L" \o ToString(label_counter + k)

\* C22: _generate_IfStatement lowers the condition, then with an
\* else-branch takes two new labels (else, end) and emits IF_FALSE cond
\* GOTO else; the then-branch; GOTO end; LABEL else; the else-branch; LABEL
\* end; without an else-branch it takes one label and emits IF_FALSE cond
\* GOTO else; the then-branch; LABEL else.  When the statement is done its
\* labels are named by exactly those instructions, in that order.
C22_IfStatementLowering ==
    [][/\ GenAt("call", "IfStatement") =>
            LET node == Head(stack).node
                c == generate_node(node.condition, Self)
                else_label == NextLabel(0)
                end_label == IF node.else_branch.k # "None"
                             THEN NextLabel(1) ELSE else_label
            IN  /\ c.temp # None
                /\ code' = c.g.code
                            \o << <<"IF_FALSE", c.temp, "GOTO", else_label>> >>
                /\ label_counter' = label_counter
                      + (IF node.else_branch.k # "None" THEN 2 ELSE 1)
                /\ stack' = <<Call(node.then_branch),
                              Visitor("after_then", node,
                                      <<else_label, end_label>>)>>
                            \o Tail(stack)
       /\ GenAt("after_then", "IfStatement") =>
            LET node == Head(stack).node
                else_label == Head(stack).labels[1]
                end_label == Head(stack).labels[2]
            IN  IF node.else_branch.k # "None"
                THEN /\ code' = code \o << <<"GOTO", end_label>>,
                                           <<"LABEL", else_label>> >>
                     /\ stack' = <<Call(node.else_branch),
                                   Visitor("after_else", node,
                                           Head(stack).labels)>>
                                 \o Tail(stack)
                ELSE /\ code' = code \o << <<"LABEL", else_label>> >>
                     /\ stack' = Tail(stack)
                     /\ end_label = else_label
                     /\ Mentioning(code', "GOTO", else_label) = {}
                     /\ Cardinality(Mentioning(code', "IF_FALSE", else_label)) = 1
                     /\ Naming(code', else_label)
                           = Mentioning(code', "IF_FALSE", else_label)
                             \cup {Len(code')}
       /\ GenAt("after_else", "IfStatement") =>
            LET else_label == Head(stack).labels[1]
                end_label == Head(stack).labels[2]
                test == Mentioning(code', "IF_FALSE", else_label)
                jump == Mentioning(code', "GOTO", end_label)
            IN  /\ code' = code \o << <<"LABEL", end_label>> >>
                /\ stack' = Tail(stack)
                /\ else_label # end_label
                /\ Cardinality(test) = 1
                /\ Cardinality(jump) = 1
                /\ Only(test) < Only(jump)
                /\ Naming(code', else_label) = test \cup {Only(jump) + 1}
                /\ Naming(code', end_label) = jump \cup {Len(code')}
                /\ Only(jump) + 1 < Len(code')
                /\ code'[Only(jump) + 1] = <<"LABEL", else_label>>
    ]_vars

\* C22 witness: var x = 1; if (x < 1) { print(x); } else { var x = "a"; }
\* has been generated.
C22_Witness ==
    /\ pc = "done"
    /\ ast = Program(<<VarDeclaration("x", IntLit),
                       IfStatement(XltOne, PrintBlock, DeclBlock)>>)
    /\ result.code =
          << <<"ASSIGN", "t0", "1">>, <<"ASSIGN", "x", "t0">>,
             <<"ASSIGN", "t1", "x">>, <<"ASSIGN", "t2", "1">>,
             <<"LT", "t3", "t1", "t2">>,
             <<"IF_FALSE", "t3", "GOTO", "L0">>,
             <<"ASSIGN", "t4", "x">>, <<"PRINT", "t4">>,
             <<"GOTO", "L1">>, <<"LABEL", "L0">>,
             <<"ASSIGN", "t5", "\"a\"">>, <<"ASSIGN", "x", "t5">>,
             <<"LABEL", "L1">> >>

\* the instructions lowering the expression appends to those of g
Lowered(expr, g) ==
    LET e == generate_node(expr, g)
    IN  SubSeq(e.g.code, Len(g.code) + 1, Len(e.g.code))

\* C23: _generate_WhileLoop takes two new labels (start, end) and emits
\* LABEL start; the condition's code; IF_FALSE cond GOTO end; the body;
\* GOTO start; LABEL end.  When the loop is done, LABEL start is before the
\* condition's code and the test, the back-edge GOTO start after the body,
\* and the two labels are named by those four instructions only.
C23_WhileLoopLowering ==
    [][/\ GenAt("call", "WhileLoop") =>
            LET node == Head(stack).node
                c == generate_node(node.condition, Self)
                start_label == NextLabel(0)
                end_label == NextLabel(1)
            IN  /\ c.temp # None
                /\ start_label # end_label
                /\ code' = code
                            \o << <<"LABEL", start_label>> >>
                            \o Lowered(node.condition, Self)
                            \o << <<"IF_FALSE", c.temp, "GOTO", end_label>> >>
                /\ temp_counter' = c.g.temp_counter
                /\ label_counter' = label_counter + 2
                /\ stack' = <<Call(node.body),
                              Visitor("after_body", node,
                                      <<start_label, end_label>>)>>
                            \o Tail(stack)
       /\ GenAt("after_body", "WhileLoop") =>
            LET start_label == Head(stack).labels[1]
                end_label == Head(stack).labels[2]
                start == Mentioning(code', "LABEL", start_label)
                test == Mentioning(code', "IF_FALSE", end_label)
                n == Len(code')
            IN  /\ code' = code \o << <<"GOTO", start_label>>,
                                      <<"LABEL", end_label>> >>
                /\ stack' = Tail(stack)
                /\ Cardinality(start) = 1
                /\ Cardinality(test) = 1
                /\ Only(start) + 1 < Only(test)
                /\ Only(test) < n - 1
                /\ code'[Only(test)][2] = code'[Only(test) - 1][2]
                /\ Naming(code', start_label) = start \cup {n - 1}
                /\ Naming(code', end_label) = test \cup {n}
    ]_vars

\* C23 witness: var x = 1; while (x < 1) { x = x + 1; } has been generated.
C23_Witness ==
    /\ pc = "done"
    /\ ast = Program(<<VarDeclaration("x", IntLit),
                       WhileLoop(XltOne, StepBlock)>>)
    /\ result.code =
          << <<"ASSIGN", "t0", "1">>, <<"ASSIGN", "x", "t0">>,
             <<"LABEL", "L0">>,
             <<"ASSIGN", "t1", "x">>, <<"ASSIGN", "t2", "1">>,
             <<"LT", "t3", "t1", "t2">>,
             <<"IF_FALSE", "t3", "GOTO", "L1">>,
             <<"ASSIGN", "t4", "x">>, <<"ASSIGN", "t5", "1">>,
             <<"ADD", "t6", "t4", "t5">>, <<"ASSIGN", "x", "t6">>,
             <<"GOTO", "L0">>, <<"LABEL", "L1">> >>

\* What the claim and its amendment both say of _generate_ForLoop: four new
\* labels (start, cond, update, end); the init; GOTO cond; LABEL start; the
\* body; LABEL update; the update's code; LABEL cond; and LABEL end last.
\* test(node, g, start_label) is what is to lie between the code after
\* LABEL cond and LABEL end.
ForLoopLowering(test(_, _, _)) ==
    /\ GenAt("call", "ForLoop") =>
          LET node == Head(stack).node
              labels == <<NextLabel(0), NextLabel(1), NextLabel(2), NextLabel(3)>>
          IN  /\ \A i, j \in 1..4 : labels[i] = labels[j] => i = j
              /\ code' = code
              /\ label_counter' = label_counter + 4
              /\ stack' = (IF node.init.k # "None"
                           THEN <<Call(node.init)>> ELSE <<>>)
                          \o <<Visitor("after_init", node, labels)>>
                          \o Tail(stack)
    /\ GenAt("after_init", "ForLoop") =>
          LET node == Head(stack).node
              labels == Head(stack).labels
          IN  /\ code' = code \o << <<"GOTO", labels[2]>>,
                                    <<"LABEL", labels[1]>> >>
              /\ stack' = <<Call(node.body),
                            Visitor("after_body", node, labels)>>
                          \o Tail(stack)
    /\ GenAt("after_body", "ForLoop") =>
          LET node == Head(stack).node
              labels == Head(stack).labels
              u == generate_node(node.update, Self)
              entry == Mentioning(code', "GOTO", labels[2])
              n == Len(code')
          IN  /\ code' = code
                          \o << <<"LABEL", labels[3]>> >>
                          \o Lowered(node.update, Self)
                          \o << <<"LABEL", labels[2]>> >>
                          \o test(node, u.g, labels[1])
                          \o << <<"LABEL", labels[4]>> >>
              /\ stack' = Tail(stack)
              /\ Cardinality(entry) = 1
              /\ code'[Only(entry) + 1] = <<"LABEL", labels[1]>>
              /\ Cardinality(Mentioning(code', "LABEL", labels[2])) = 1
              /\ Naming(code', labels[1]) = {Only(entry) + 1, n - 1}
              /\ Naming(code', labels[2])
                    = entry \cup Mentioning(code', "LABEL", labels[2])
              /\ Naming(code', labels[3]) = {Len(code) + 1}
              /\ Naming(code', labels[4]) = {n}
              /\ Only(entry) + 1 < Len(code) + 1
              /\ Len(code) + 1 < Only(Mentioning(code', "LABEL", labels[2]))

\* the condition's code, then IF_TRUE cond GOTO start
ConditionCheck(node, g, start_label) ==
    Lowered(node.condition, g)
    \o << <<"IF_TRUE", generate_node(node.condition, g).temp,
            "GOTO", start_label>> >>

\* the same for a loop with a condition; GOTO start for one without
ConditionCheckOrGoto(node, g, start_label) ==
    IF node.condition.k # "None"
    THEN ConditionCheck(node, g, start_label)
    ELSE << <<"GOTO", start_label>> >>

\* C24, as claimed: every ForLoop is lowered with the condition's code and
\* IF_TRUE cond GOTO start between LABEL cond and LABEL end.
C24_ForLoopLowering_AsClaimed ==
    [][ForLoopLowering(ConditionCheck)]_vars

\* C24, amended: a ForLoop with a condition is lowered as claimed: the init
\* once; GOTO cond; LABEL start; body; LABEL update; update code; LABEL
\* cond; condition code; IF_TRUE cond GOTO start; LABEL end, on four
\* distinct new labels.  A ForLoop without a condition has GOTO start in
\* the place of the condition code and the IF_TRUE.
C24_ForLoopLowering ==
    [][ForLoopLowering(ConditionCheckOrGoto)]_vars

\* C24 witness: for (var x = 1; x < 1; x + 1) { print(x); } has been
\* generated.
C24_Witness ==
    /\ pc = "done"
    /\ ast = Program(<<CountLoop(XplusOne)>>)
    /\ result.code =
          << <<"ASSIGN", "t0", "1">>, <<"ASSIGN", "x", "t0">>,
             <<"GOTO", "L1">>, <<"LABEL", "L0">>,
             <<"ASSIGN", "t1", "x">>, <<"PRINT", "t1">>,
             <<"LABEL", "L2">>,
             <<"ASSIGN", "t2", "x">>, <<"ASSIGN", "t3", "1">>,
             <<"ADD", "t4", "t2", "t3">>,
             <<"LABEL", "L1">>,
             <<"ASSIGN", "t5", "x">>, <<"ASSIGN", "t6", "1">>,
             <<"LT", "t7", "t5", "t6">>,
             <<"IF_TRUE", "t7", "GOTO", "L0">>,
             <<"LABEL", "L3">> >>

\* C28: in the instruction list compile_program returns, every label a
\* GOTO, IF_FALSE or IF_TRUE names is defined by exactly one LABEL
\* instruction of the list, and no label by two.
C28_LabelsDefinedOnce ==
    (pc = "done" /\ result.k = "code") =>
        /\ \A label \in TargetLabels(result.code) :
              Cardinality(Mentioning(result.code, "LABEL", label)) = 1
        /\ \A n \in 1..Len(result.code) :
              result.code[n][1] = "LABEL" =>
                 Mentioning(result.code, "LABEL", result.code[n][2]) = {n}

\* C28 witness: var x = 1; followed by an if with a while in its
\* then-branch and a for in its else-branch has been generated: eight
\* labels, eight LABEL instructions, six of them jumped to.
C28_Witness ==
    /\ pc = "done"
    /\ ast = Program(<<VarDeclaration("x", IntLit), NestedIf>>)
    /\ result.k = "code"
    /\ label_counter = 8
    /\ Len(PlacedLabels(result.code)) = 8
    /\ Cardinality(TargetLabels(result.code)) = 6

---------------------------------------------------------------------------
(* Properties of the returned instructions, checked under SpecAnyName.     *)

\* the names t0, t1, ... an instruction list of that length can hold
TempNamesUpTo(n) == {"t" \o ToString(i) : i \in 0..n}

\* where the instruction list writes the name: the second word of every
\* instruction but PRINT, the jumps and LABEL
Destinations(instructions, name) ==
    {n \in 1..Len(instructions) :
        /\ instructions[n][1] \notin {"PRINT", "IF_FALSE", "IF_TRUE", "GOTO",
                                      "LABEL"}
        /\ instructions[n][2] = name}

\* where the instruction list reads the name: the words after the
\* destination, the word PRINT prints, the word a conditional jump tests
Uses(instructions, name) ==
    {n \in 1..Len(instructions) :
        LET i == instructions[n] IN
        CASE i[1] \in {"PRINT", "IF_FALSE", "IF_TRUE"} -> i[2] = name
          [] i[1] \in {"GOTO", "LABEL", "INPUT"} -> FALSE
          [] i[1] = "CALL" -> \E k \in 4..Len(i) : i[k] = name
          [] OTHER -> \E k \in 3..Len(i) : i[k] = name}

\* C29, as claimed: in the instruction list compile_program returns, every
\* temporary t<N> is the destination of exactly one instruction, which is
\* before every instruction using it, and the destinations t<N> come in
\* increasing N through the list.
C29_TemporariesAssignedOnce ==
    (pc = "done" /\ result.k = "code") =>
        LET instructions == result.code
            temps == {t \in TempNamesUpTo(Len(instructions)) :
                         Destinations(instructions, t)
                            \cup Uses(instructions, t) # {}}
        IN  /\ \A t \in temps :
                  /\ Cardinality(Destinations(instructions, t)) = 1
                  /\ \A u \in Uses(instructions, t) :
                        Only(Destinations(instructions, t)) < u
            /\ \A n, m \in 0..Len(instructions) :
                  (/\ n < m
                   /\ Destinations(instructions, "t" \o ToString(n)) # {}
                   /\ Destinations(instructions, "t" \o ToString(m)) # {})
                  => \A a \in Destinations(instructions, "t" \o ToString(n)),
                        b \in Destinations(instructions, "t" \o ToString(m)) :
                        a < b

---------------------------------------------------------------------------
(* Properties of two generator runs, checked under SpecRerun.              *)

---------------------------------------------------------------------------
(* Properties of two calls of generate on one generator, checked under     *)
(* SpecGenerateTwice.                                                      *)

\* C21, as claimed: a second call of generate on the same generator numbers
\* from t0 and L0 again and returns only the instructions of the tree
\* passed to it, so that for the same tree it returns what the first call
\* returned and leaves the counters where the first call left them.
C21_ResetPerGenerate ==
    (ret.op = "generate" /\ pc = "done") =>
        /\ result = [k |-> "code", code |-> ret.value.code]
        /\ HandedTemps(result.code) = TempNames(Len(HandedTemps(result.code)))
        /\ temp_counter = ret.value.temp_counter
        /\ label_counter = ret.value.label_counter

---------------------------------------------------------------------------
(* Properties of interleaved runs, checked under SpecTwoRuns.              *)

\* C26: however the steps of two runs on two trees are interleaved, each
\* with its own SemanticAnalyzer and IntermediateCodeGenerator, each run is
\* at every moment in a state it goes through when it runs alone, and the
\* diagnostics, scope list, counters and instructions it returns with are
\* those it returns with alone.
C26_IndependentRuns ==
    \A run \in Runs :
        LET alone == RunAlone(Run(ast[run])) IN
        /\ RunOf(run) \in alone
        /\ pc[run] = "done" =>
              \A r \in alone : r.pc = "done" => r = RunOf(run)

\* C26 witness: the runs of var x = 1; while (x < 1) { x = x + 1; } and of
\* var x = len(5); have both returned, the first with its thirteen
\* instructions, seven temporaries and two labels, the second with its
\* diagnostic.
C26_Witness ==
    /\ ast[1] = Program(<<VarDeclaration("x", IntLit),
                          WhileLoop(XltOne, StepBlock)>>)
    /\ ast[2] = Program(<<VarDeclaration("x", Len5)>>)
    /\ pc = <<"done", "done">>
    /\ Len(result[1].code) = 13
    /\ temp_counter = <<7, 0>>
    /\ label_counter = <<2, 0>>
    /\ errors = << <<>>, <<Diagnostic("funcion 'len' espera un string", "len",
                                      <<Type_INT>>)>> >>
    /\ result[2].k = "None"

---------------------------------------------------------------------------
(* Properties of _get_expression_type, checked under SpecExpr.  The step   *)
(* of the call is the step whose ret' names it: ast is the expression,     *)
(* scopes the table, ret'.value the type returned, Added the diagnostics.  *)

Typed == ret'.op = "_get_expression_type"

\* C13: a FunctionCall whose arguments all have non-error types resolves to
\* int with no diagnostic exactly when the name is len and its one argument
\* is a string; otherwise to error with exactly one diagnostic:
\* unknown-function when the name is not len, argument-count when len has
\* not exactly one argument, argument-type when len's argument is no string.
C13_FunctionCallLen ==
    [][(Typed /\ ast.k = "FunctionCall") =>
        LET ts == get_expression_types(ast.arguments, scopes).types IN
        (\A i \in 1..Len(ts) : ts[i] # Type_ERROR) =>
            /\ (ret'.value = Type_INT /\ Added = <<>>)
                  <=> (ast.name = "len" /\ Len(ts) = 1 /\ ts[1] = Type_STRING)
            /\ ret'.value \in {Type_INT, Type_ERROR}
            /\ ret'.value = Type_ERROR =>
                  Added = <<CASE ast.name # "len" ->
                                    Diagnostic("funcion no definida", ast.name, <<>>)
                              [] ast.name = "len" /\ Len(ts) # 1 ->
                                    Diagnostic("funcion 'len' espera 1 argumento",
                                               "len", <<ToString(Len(ts))>>)
                              [] OTHER ->
                                    Diagnostic("funcion 'len' espera un string",
                                               "len", <<ts[1]>>)>>
    ]_vars

\* C13 witness: len(x) with x declared a string was typed int without a
\* diagnostic.
C13_Witness ==
    /\ pc = "typed"
    /\ ast = FunctionCall("len", <<Variable("x")>>)
    /\ scopes = <<[x |-> Type_STRING]>>
    /\ ret.value = Type_INT
    /\ errors = <<>>

\* C16: a UnaryOp with a non-error operand type: ! resolves to boolean for
\* a boolean, int or float operand, - to the operand's own type for an int
\* or float operand; any other operand type resolves to error with exactly
\* one diagnostic naming the operator and the operand type.
C16_UnaryOperators ==
    [][(Typed /\ ast.k = "UnaryOp") =>
        LET o == get_expression_type(ast.operand, scopes).type
            bad == /\ ret'.value = Type_ERROR
                   /\ Added = <<Diagnostic("operador incompatible con tipo",
                                           ast.operator, <<o>>)>>
        IN  o # Type_ERROR =>
            /\ ast.operator = "!" =>
                  IF o \in {Type_BOOLEAN, Type_INT, Type_FLOAT}
                  THEN ret'.value = Type_BOOLEAN /\ Added = <<>>
                  ELSE bad
            /\ ast.operator = "-" =>
                  IF o \in {Type_INT, Type_FLOAT}
                  THEN ret'.value = o /\ Added = <<>>
                  ELSE bad
    ]_vars

\* C16 witness: !x with x declared a float was typed boolean without a
\* diagnostic.
C16_Witness ==
    /\ pc = "typed"
    /\ ast = UnaryOp("!", Variable("x"))
    /\ scopes = <<[x |-> Type_FLOAT]>>
    /\ ret.value = Type_BOOLEAN
    /\ errors = <<>>

\* whether the expression holds a Variable node of that name
RECURSIVE Mentions(_, _)
Mentions(expr, name) ==
    CASE expr.k = "Variable" -> expr.name = name
      [] expr.k = "BinaryOp" ->
            Mentions(expr.left, name) \/ Mentions(expr.right, name)
      [] expr.k = "UnaryOp" -> Mentions(expr.operand, name)
      [] expr.k = "FunctionCall" ->
            \E i \in 1..Len(expr.arguments) : Mentions(expr.arguments[i], name)
      [] OTHER -> FALSE

\* C17: when an operand of a BinaryOp, the operand of a UnaryOp or an
\* argument of a FunctionCall resolves to error, the node resolves to error
\* and appends nothing after its operands' diagnostics; a BinaryOp with two
\* non-error operands that get_result_type rejects appends exactly one
\* operator diagnostic.  So an expression around one undeclared variable
\* resolves to error with that variable's diagnostic alone, and no
\* expression nested along one path has more than one diagnostic.
C17_ErrorPoisoning ==
    [][Typed =>
        /\ ast.k = "BinaryOp" =>
              LET l == get_expression_type(ast.left, scopes)
                  r == get_expression_type(ast.right, scopes)
              IN  /\ (l.type = Type_ERROR \/ r.type = Type_ERROR) =>
                        /\ ret'.value = Type_ERROR
                        /\ Added = l.errors \o r.errors
                  /\ (/\ l.type # Type_ERROR
                      /\ r.type # Type_ERROR
                      /\ get_result_type(l.type, r.type, ast.operator) = Type_ERROR)
                       =>
                        /\ ret'.value = Type_ERROR
                        /\ Added = <<Diagnostic("operador incompatible con tipos",
                                                ast.operator, <<l.type, r.type>>)>>
        /\ ast.k = "UnaryOp" =>
              LET o == get_expression_type(ast.operand, scopes)
              IN  o.type = Type_ERROR =>
                     ret'.value = Type_ERROR /\ Added = o.errors
        /\ ast.k = "FunctionCall" =>
              LET a == get_expression_types(ast.arguments, scopes)
              IN  (\E i \in 1..Len(a.types) : a.types[i] = Type_ERROR) =>
                     ret'.value = Type_ERROR /\ Added = a.errors
        /\ (Mentions(ast, "x") /\ lookup(scopes, "x").raised) =>
              /\ ret'.value = Type_ERROR
              /\ Added = <<SemanticError("no declarada", "x")>>
        /\ Len(Added) <= 1
        /\ ret'.value = Type_ERROR <=> Len(Added) = 1
    ]_vars

\* C17 witness: -x + 1 with x undeclared was typed error and the only
\* diagnostic is the undeclared x, two nodes below.
C17_Witness ==
    /\ pc = "typed"
    /\ ast = BinaryOp(UnaryOp("-", Variable("x")), "+", IntLit)
    /\ scopes = SymbolTable_init
    /\ ret.value = Type_ERROR
    /\ errors = <<SemanticError("no declarada", "x")>>

---------------------------------------------------------------------------
(* Properties of the lowering of expressions, checked under SpecLower.    *)
(* The step of the call is the step whose ret' names _generate_node: ast   *)
(* is the expression, ret'.value the temporary returned.                   *)

LoweredNow == ret'.op = "_generate_node"

\* the instructions the step appends
Emitted == SubSeq(code', Len(code) + 1, Len(code'))

\* the number in the name of a temporary handed out so far
TempNumber(temp) ==
    CHOOSE n \in 0..temp_counter' : temp = "t" \o ToString(n)

\* the nodes of an expression
RECURSIVE NodeCount(_)
NodeCount(expr) ==
    CASE expr.k = "BinaryOp" -> NodeCount(expr.left) + NodeCount(expr.right) + 1
      [] expr.k = "UnaryOp" -> NodeCount(expr.operand) + 1
      [] expr.k = "FunctionCall" ->
            LET RECURSIVE sum(_)
                sum(i) == IF i > Len(expr.arguments) THEN 0
                          ELSE NodeCount(expr.arguments[i]) + sum(i + 1)
            IN  sum(1) + 1
      [] OTHER -> 1

\* C25: a Literal or Variable lowers to exactly one ASSIGN into a new
\* temporary, which is returned.  A BinaryOp lowers to all code of the left
\* operand, then all code of the right operand, then exactly one
\* instruction, whose destination is a new temporary numbered above every
\* temporary of both operands and whose sources are the temporaries the
\* operands returned; that temporary is returned.
C25_ExpressionLowering ==
    [][LoweredNow =>
        /\ code' = code \o Emitted
        /\ ast.k = "Literal" =>
              /\ Emitted = << <<"ASSIGN", "t" \o ToString(temp_counter),
                                IF ast.type = Type_STRING
                                THEN "\"" \o ast.value \o "\"" ELSE ast.value>> >>
              /\ ret'.value = "t" \o ToString(temp_counter)
              /\ temp_counter' = temp_counter + 1
        /\ ast.k = "Variable" =>
              /\ Emitted = << <<"ASSIGN", "t" \o ToString(temp_counter),
                                ast.name>> >>
              /\ ret'.value = "t" \o ToString(temp_counter)
              /\ temp_counter' = temp_counter + 1
        /\ ast.k = "BinaryOp" =>
              LET nl == NodeCount(ast.left)
                  nr == NodeCount(ast.right)
                  left == SubSeq(Emitted, 1, nl)
                  right == SubSeq(Emitted, nl + 1, nl + nr)
                  last == Emitted[nl + nr + 1]
              IN  /\ Len(Emitted) = nl + nr + 1
                  /\ left = Lowered(ast.left, Self)
                  /\ right = Lowered(ast.right,
                                     generate_node(ast.left, Self).g)
                  /\ HandedTemps(left)
                        = [i \in 1..nl |-> "t" \o ToString(temp_counter + i - 1)]
                  /\ HandedTemps(right)
                        = [i \in 1..nr |->
                              "t" \o ToString(temp_counter + nl + i - 1)]
                  /\ last = <<op_map(ast.operator),
                              "t" \o ToString(temp_counter + nl + nr),
                              left[nl][2], right[nr][2]>>
                  /\ ret'.value = last[2]
                  /\ temp_counter' = temp_counter + nl + nr + 1
                  /\ \A i \in 1..(nl + nr) :
                        TempNumber(Emitted[i][2]) < TempNumber(last[2])
    ]_vars

\* C25 witness: (x + 1) < 1 with x an int was lowered after one earlier
\* literal: x and 1, their sum, the right 1, the comparison.
C25_Witness ==
    /\ pc = "lowered"
    /\ ast = BinaryOp(XplusOne, "<", IntLit)
    /\ code = << <<"ASSIGN", "t0", "1">>,
                 <<"ASSIGN", "t1", "x">>, <<"ASSIGN", "t2", "1">>,
                 <<"ADD", "t3", "t1", "t2">>,
                 <<"ASSIGN", "t4", "1">>,
                 <<"LT", "t5", "t3", "t4">> >>
    /\ ret.value = "t5"

---------------------------------------------------------------------------
(* Properties of Type.get_result_type, checked under SpecType.             *)

Numeric == {Type_INT, Type_FLOAT}

\* C14: for + - * / get_result_type returns error if either operand is
\* error; string for string + string; string for + with exactly one string
\* operand; for two numeric operands float if either is float, else int
\* (also for /); and error in every remaining case.
C14_ArithmeticTypes ==
    (pc = "returned" /\ ret.operator \in {"+", "-", "*", "/"}) =>
        LET l == ret.left_type
            r == ret.right_type
        IN  ret.value =
              CASE l = Type_ERROR \/ r = Type_ERROR -> Type_ERROR
                [] l # Type_ERROR /\ r # Type_ERROR /\ ret.operator = "+"
                   /\ (l = Type_STRING \/ r = Type_STRING) -> Type_STRING
                [] l \in Numeric /\ r \in Numeric ->
                      IF l = Type_FLOAT \/ r = Type_FLOAT
                      THEN Type_FLOAT ELSE Type_INT
                [] OTHER -> Type_ERROR

\* C14 witness: 1 + "a" returned string.
C14_Witness ==
    /\ pc = "returned"
    /\ ret = TypeCall(Type_INT, Type_STRING, "+", Type_STRING)

\* C15: get_result_type returns boolean for == and != on two numeric, two
\* boolean or two string operands, for < > <= >= on two numeric or two
\* string operands, for && and || on two booleans, and error in every
\* other case of these operators; an operator outside the twelve known
\* ones yields error.
C15_ComparisonTypes ==
    (pc = "returned" /\ ret.operator \notin {"+", "-", "*", "/"}) =>
        LET l == ret.left_type
            r == ret.right_type
            o == ret.operator
            legal ==
                \/ /\ o \in {"==", "!="}
                   /\ \/ l \in Numeric /\ r \in Numeric
                      \/ l = Type_BOOLEAN /\ r = Type_BOOLEAN
                      \/ l = Type_STRING /\ r = Type_STRING
                \/ /\ o \in {"<", ">", "<=", ">="}
                   /\ \/ l \in Numeric /\ r \in Numeric
                      \/ l = Type_STRING /\ r = Type_STRING
                \/ /\ o \in {"&&", "||"}
                   /\ l = Type_BOOLEAN /\ r = Type_BOOLEAN
        IN  ret.value = IF legal THEN Type_BOOLEAN ELSE Type_ERROR

\* C15 witness: "a" < "a" returned boolean.
C15_Witness ==
    /\ pc = "returned"
    /\ ret = TypeCall(Type_STRING, Type_STRING, "<", Type_BOOLEAN)

====
